---- MODULE Spec2Model ----
(***************************************************************************)
(* Verification model of the astrodyn orbital mechanics engine              *)
(* (lib/orbital-mechanics.ts) and of the Kepler solver listed in            *)
(* APPENDIX_D.md (D6 - Mechanics Engine).                                   *)
(*                                                                          *)
(* The engine is a set of pure functions over JavaScript numbers.  Each     *)
(* function is an operator of the same name, computed step by step as the   *)
(* source computes it.  A JavaScript number is modelled by a decimal        *)
(* fixed-point number (see "Numbers" below) or by one of the three          *)
(* non-finite values NaN, +Infinity, -Infinity.  A thrown Error is the      *)
(* record [kind |-> "error", message |-> ...]; a returned value is a        *)
(* record with kind = "ok".                                                 *)
(*                                                                          *)
(* Each specification draws the arguments of one call in its initial        *)
(* state and applies the function in one step.                              *)
(***************************************************************************)
EXTENDS Integers, Sequences, FiniteSets, TLC

VARIABLES
  fn,      \* name of the engine function being called
  args,    \* the call's arguments (a record)
  pc,      \* "call": not yet executed; "done": returned or thrown
  result   \* the value returned, or the error thrown

vars == <<fn, args, pc, result>>

(***************************************************************************)
(* Numbers.                                                                 *)
(*                                                                          *)
(* A finite number is a tuple of NL limbs in base B, most significant       *)
(* first: NI integer limbs followed by NF fractional limbs,                 *)
(*     value(x) = SUM_i x[i] * B^(NI - i).                                  *)
(* Limbs 2..NL lie in 0..B-1; limb 1 carries the sign (floor               *)
(* representation, as in two's complement).  The resolution is B^-NF =      *)
(* 1e-16 and the range B^NI = 1e16, which covers every quantity of the      *)
(* engine for the inputs used here (IEEE doubles give about 16 significant  *)
(* digits).  Results of *, / and sqrt are truncated to the resolution; a    *)
(* magnitude of 1e16 or more is an infinity.  Non-finite values are tuples  *)
(* of length 1.  There is no negative zero.  The limb operations (F...)     *)
(* are written out limb by limb.                                            *)
(***************************************************************************)
B  == 10^4
NI == 4
NF == 4
NL == NI + NF

NaN    == <<0>>
PosInf == <<1>>
NegInf == <<-1>>

IsFinite(x) == Len(x) = NL
IsNaN(x)    == x = NaN

\* Carry propagation from the least significant limb; limb 1 keeps the sign.
FNorm(raw) ==
  LET c7 == (raw[8]) \div B
      c6 == (raw[7] + c7) \div B
      c5 == (raw[6] + c6) \div B
      c4 == (raw[5] + c5) \div B
      c3 == (raw[4] + c4) \div B
      c2 == (raw[3] + c3) \div B
      c1 == (raw[2] + c2) \div B
  IN  <<raw[1] + c1,
        (raw[2] + c2) % B,
        (raw[3] + c3) % B,
        (raw[4] + c4) % B,
        (raw[5] + c5) % B,
        (raw[6] + c6) % B,
        (raw[7] + c7) % B,
        raw[8] % B>>

FZero == <<0, 0, 0, 0, 0, 0, 0, 0>>

FromInt(n) == FNorm(<<0, 0, 0, n, 0, 0, 0, 0>>)

FAdd(x, y) == FNorm(<<x[1] + y[1], x[2] + y[2], x[3] + y[3], x[4] + y[4], x[5] + y[5], x[6] + y[6], x[7] + y[7], x[8] + y[8]>>)

FSub(x, y) == FNorm(<<x[1] - y[1], x[2] - y[2], x[3] - y[3], x[4] - y[4], x[5] - y[5], x[6] - y[6], x[7] - y[7], x[8] - y[8]>>)

FNeg(x)    == FNorm(<<0 - x[1], 0 - x[2], 0 - x[3], 0 - x[4], 0 - x[5], 0 - x[6], 0 - x[7], 0 - x[8]>>)

FIsNeg(x)  == x[1] < 0
FIsZero(x) == x = FZero
FAbs(x)    == IF FIsNeg(x) THEN FNeg(x) ELSE x
FLess(x, y) == FIsNeg(FSub(x, y))
FLeq(x, y)  == ~FLess(y, x)

\* x * n and x / n for a small natural n (n < 200000); the quotient is truncated.
FMulSmall(x, n) == FNorm(<<x[1] * n, x[2] * n, x[3] * n, x[4] * n, x[5] * n, x[6] * n, x[7] * n, x[8] * n>>)

FDivSmallMag(x, n) ==
  LET v1 == x[1]
      v2 == (v1 % n) * B + x[2]
      v3 == (v2 % n) * B + x[3]
      v4 == (v3 % n) * B + x[4]
      v5 == (v4 % n) * B + x[5]
      v6 == (v5 % n) * B + x[6]
      v7 == (v6 % n) * B + x[7]
      v8 == (v7 % n) * B + x[8]
  IN  <<v1 \div n, v2 \div n, v3 \div n, v4 \div n, v5 \div n, v6 \div n, v7 \div n, v8 \div n>>

FDivSmall(x, n) ==
  IF FIsNeg(x) THEN FNeg(FDivSmallMag(FNeg(x), n)) ELSE FDivSmallMag(x, n)

\* Product of two non-negative numbers, truncated; p_r is the raw limb of weight
\* B^(NI - r), p9 and p10 are guard limbs.  A product of 1e16 or more is +Infinity.
FMulMag(x, y) ==
  LET p0 == x[1] * y[3] + x[2] * y[2] + x[3] * y[1]
      p1 == x[1] * y[4] + x[2] * y[3] + x[3] * y[2] + x[4] * y[1]
      p2 == x[1] * y[5] + x[2] * y[4] + x[3] * y[3] + x[4] * y[2] + x[5] * y[1]
      p3 == x[1] * y[6] + x[2] * y[5] + x[3] * y[4] + x[4] * y[3] + x[5] * y[2] + x[6] * y[1]
      p4 == x[1] * y[7] + x[2] * y[6] + x[3] * y[5] + x[4] * y[4] + x[5] * y[3] + x[6] * y[2] + x[7] * y[1]
      p5 == x[1] * y[8] + x[2] * y[7] + x[3] * y[6] + x[4] * y[5] + x[5] * y[4] + x[6] * y[3] + x[7] * y[2] + x[8] * y[1]
      p6 == x[2] * y[8] + x[3] * y[7] + x[4] * y[6] + x[5] * y[5] + x[6] * y[4] + x[7] * y[3] + x[8] * y[2]
      p7 == x[3] * y[8] + x[4] * y[7] + x[5] * y[6] + x[6] * y[5] + x[7] * y[4] + x[8] * y[3]
      p8 == x[4] * y[8] + x[5] * y[7] + x[6] * y[6] + x[7] * y[5] + x[8] * y[4]
      p9 == x[5] * y[8] + x[6] * y[7] + x[7] * y[6] + x[8] * y[5]
      p10 == x[6] * y[8] + x[7] * y[7] + x[8] * y[6]
      g9 == p10 \div B
      g8 == (p9 + g9) \div B
      hi == x[1] * y[1] + x[1] * y[2] + x[2] * y[1]
      lo == FNorm(<<p1, p2, p3, p4, p5, p6, p7, p8 + g8>>)
  IN  IF hi # 0 \/ p0 # 0 THEN PosInf ELSE lo

\* p, negated when neg holds; a non-finite p is passed on unchanged.
FSigned(neg, p) == IF neg /\ IsFinite(p) THEN FNeg(p) ELSE p

FMul(x, y) == FSigned(FIsNeg(x) # FIsNeg(y), FMulMag(FAbs(x), FAbs(y)))

\* The number n * B^(NI - pos), for a natural n.
Place(n, pos) == FNorm(<<IF pos = 1 THEN n ELSE 0, IF pos = 2 THEN n ELSE 0, IF pos = 3 THEN n ELSE 0, IF pos = 4 THEN n ELSE 0, IF pos = 5 THEN n ELSE 0, IF pos = 6 THEN n ELSE 0, IF pos = 7 THEN n ELSE 0, IF pos = 8 THEN n ELSE 0>>)

\* Index of the most significant non-zero limb of a positive number.
Lead(x) ==
  IF x[1] # 0 THEN 1
  ELSE IF x[2] # 0 THEN 2
  ELSE IF x[3] # 0 THEN 3
  ELSE IF x[4] # 0 THEN 4
  ELSE IF x[5] # 0 THEN 5
  ELSE IF x[6] # 0 THEN 6
  ELSE IF x[7] # 0 THEN 7
  ELSE 8

Limb(x, i) == IF i <= NL THEN x[i] ELSE 0

\* The two leading limbs of a positive number, as one natural.
Lead2(x, k) == x[k] * B + Limb(x, k + 1)

FOne   == <<0, 0, 0, 1, 0, 0, 0, 0>>
FTwo   == <<0, 0, 0, 2, 0, 0, 0, 0>>
FThree == <<0, 0, 0, 3, 0, 0, 0, 0>>

\* 1 / y for y > 0: a first guess from the two leading limbs, then
\* Newton's iteration r <- r * (2 - y * r).
RecipStep(r, yr) == IF IsFinite(yr) THEN FMulMag(r, FSub(FTwo, yr)) ELSE yr

RECURSIVE RecipIter(_, _, _)
RecipNext(y, r1, n) == IF IsFinite(r1) THEN RecipIter(y, r1, n) ELSE r1
RecipIter(y, r, n) ==
  IF n = 0 THEN r ELSE RecipNext(y, RecipStep(r, FMulMag(y, r)), n - 1)

RecipGuess(y, k) ==
  FDivSmallMag(Place((10^9) \div Lead2(y, k), 2 * NI + 1 - k), 10)

FRecip(y) == RecipIter(y, RecipGuess(y, Lead(y)), 4)

\* x / y for x >= 0, y > 0: q = x * r with r = 1 / y, then one correction
\* step q + r * (x - y * q).
DivCorrect(x, r, q, yq) ==
  IF IsFinite(yq) THEN FAdd(q, FMul(r, FSub(x, yq))) ELSE PosInf
DivQuot(x, y, r, q) ==
  IF IsFinite(q) THEN DivCorrect(x, r, q, FMulMag(y, q)) ELSE PosInf
DivRecip(x, y, r) ==
  IF IsFinite(r) THEN DivQuot(x, y, r, FMulMag(x, r)) ELSE PosInf
FDivMag(x, y) == DivRecip(x, y, FRecip(y))

FDiv(x, y) == FSigned(FIsNeg(x) # FIsNeg(y), FDivMag(FAbs(x), FAbs(y)))

\* Integer square root (floor) of a natural d < 2^31, by bisection.
RECURSIVE ISqrtRec(_, _, _)
ISqrtMid(d, lo, hi, mid) ==
  IF mid * mid <= d THEN ISqrtRec(d, mid, hi) ELSE ISqrtRec(d, lo, mid - 1)
ISqrtRec(d, lo, hi) ==
  IF lo >= hi THEN lo ELSE ISqrtMid(d, lo, hi, (lo + hi + 1) \div 2)
ISqrt(d) == ISqrtRec(d, 0, 46340)

\* d * 100^m scaled into [10^7, 10^9), as <<scaled, m>>.
RECURSIVE ScaleUp(_, _)
ScaleUp(d, m) == IF d >= 10^7 THEN <<d, m>> ELSE ScaleUp(d * 100, m + 1)

\* sqrt(x) for x > 0 through s = 1 / sqrt(x): first guess from the leading
\* limbs, Newton's iteration s <- s * (3 - (x * s) * s) / 2, then y = x * s
\* and one correction step y + s * (x - y^2) / 2.
RSqrtHalf(s, xss) ==
  IF IsFinite(xss) THEN FDivSmallMag(FMulMag(s, FSub(FThree, xss)), 2) ELSE xss
RSqrtStep(s, xs) == RSqrtHalf(s, IF IsFinite(xs) THEN FMulMag(xs, s) ELSE xs)

RECURSIVE RSqrtIter(_, _, _)
RSqrtNext(x, s1, n) == IF IsFinite(s1) THEN RSqrtIter(x, s1, n) ELSE s1
RSqrtIter(x, s, n) ==
  IF n = 0 THEN s ELSE RSqrtNext(x, RSqrtStep(s, FMulMag(x, s)), n - 1)

\* First guess of 1 / sqrt(x).  With x ~ d * B^ex, ex = NI - k - 1,
\* sqrt(B^ex) = 100^odd * B^h, and sc = <<d * 100^m, m>>:
\* 1 / sqrt(x) ~ t * 10^e10 * B^(-2 - h), t = 10^9 / isqrt(d * 100^m).
RSqrtScaled(p, e10) ==
  IF e10 >= 0 THEN FMulSmall(p, 10^e10) ELSE FDivSmallMag(p, 10^(0 - e10))
RSqrtPlace(sc, odd, h) ==
  RSqrtScaled(Place((10^9) \div ISqrt(sc[1]), NI + 2 + h), sc[2] - 1 - 2 * odd)
RSqrtParity(d, ex, odd) == RSqrtPlace(ScaleUp(d, 0), odd, (ex - odd) \div 2)
RSqrtGuess(x, k) == RSqrtParity(Lead2(x, k), NI - k - 1, (NI - k - 1) % 2)

SqrtCorrect(x, s, y, yy) ==
  IF IsFinite(yy) THEN FAdd(y, FDivSmall(FMul(s, FSub(x, yy)), 2)) ELSE NaN
SqrtSquare(x, s, y) ==
  IF IsFinite(y) THEN SqrtCorrect(x, s, y, FMulMag(y, y)) ELSE NaN
SqrtFromRecip(x, s) ==
  IF IsFinite(s) THEN SqrtSquare(x, s, FMulMag(x, s)) ELSE NaN
FSqrtPos(x) == SqrtFromRecip(x, RSqrtIter(x, RSqrtGuess(x, Lead(x)), 4))

FSqrt(x) == IF FIsZero(x) THEN FZero ELSE FSqrtPos(x)

\* Integer part (toward zero) of a non-negative number.
FTruncMag(x) == <<x[1], x[2], x[3], x[4], 0, 0, 0, 0>>

\* JavaScript's x % y for y > 0: the remainder has the sign of x.
RemCorrect(r, y) ==
  IF FIsNeg(r) THEN FAdd(r, y)
  ELSE IF FLeq(y, r) THEN FSub(r, y) ELSE r
RemQuot(x, y, q) ==
  IF IsFinite(q) THEN RemCorrect(FSub(x, FMulMag(FTruncMag(q), y)), y) ELSE NaN
FRemMag(x, y) == RemQuot(x, y, FDivMag(x, y))
FRem(x, y) == FSigned(FIsNeg(x), FRemMag(FAbs(x), y))

Pi        == <<0, 0, 0, 3, 1415, 9265, 3589, 7932>>
TwoPi     == <<0, 0, 0, 6, 2831, 8530, 7179, 5864>>     \* 2 * Pi
HalfPi    == <<0, 0, 0, 1, 5707, 9632, 6794, 8966>>     \* Pi / 2
QuarterPi == <<0, 0, 0, 0, 7853, 9816, 3397, 4483>>     \* Pi / 4

\* Taylor series on [0, pi/4], in Horner form over u = t^2:
\* acc <- 1 - u * acc / (k * (k + 1)) for k, k - 2, ... down to 1 or 2.
RECURSIVE Horner(_, _, _)
HornerNext(u, k, a1) == IF IsFinite(a1) THEN Horner(u, k, a1) ELSE a1
Horner(u, k, acc) ==
  IF k < 1 THEN acc
  ELSE HornerNext(u, k - 2, FSub(FOne, FDivSmall(FMulMag(u, acc), k * (k + 1))))

\* sin t (isSin) or cos t on [0, pi/4]: sin t = t * H(16), cos t = H(17).
TaylorScale(isSin, t, series) == IF isSin THEN FMulMag(t, series) ELSE series
Taylor(isSin, t) ==
  TaylorScale(isSin, t, Horner(FMulMag(t, t), IF isSin THEN 16 ELSE 17, FOne))

\* sin t (isSin) or cos t on [0, pi/2): beyond pi/4 the other function of
\* the complement pi/2 - t.
TaylorPick(isSin, t, small) ==
  Taylor(IF small THEN isSin ELSE ~isSin, IF small THEN t ELSE FAbs(FSub(HalfPi, t)))
TrigQ(isSin, t) == TaylorPick(isSin, t, FLeq(t, QuarterPi))

\* x reduced into [0, 2 pi): for x >= 0, x - q * 2 pi with q the integer part
\* of x / (2 pi), corrected by one revolution where the truncated quotient
\* is off by one; for x < 0, the complement of the reduced magnitude.
InvTwoPi == <<0, 0, 0, 0, 1591, 5494, 3091, 8953>>      \* 1 / (2 * Pi)
ReduceCorrect(r) ==
  IF FIsNeg(r) THEN FAdd(r, TwoPi)
  ELSE IF FLeq(TwoPi, r) THEN FSub(r, TwoPi) ELSE r
ReduceMag(x) ==
  ReduceCorrect(FSub(x, FMulMag(FTruncMag(FMulMag(x, InvTwoPi)), TwoPi)))
ReduceSigned(neg, r) == IF neg /\ ~FIsZero(r) THEN FSub(TwoPi, r) ELSE r
Reduce(x) == ReduceSigned(FIsNeg(x), ReduceMag(FAbs(x)))

Quadrant(r) ==
  IF FLess(r, HalfPi) THEN 0
  ELSE IF FLess(r, Pi) THEN 1
  ELSE IF FLess(r, FAdd(Pi, HalfPi)) THEN 2 ELSE 3

\* In quadrant q, with t the angle from the start of the quadrant:
\* sin is  sin t, cos t, -sin t, -cos t  and
\* cos is  cos t, -sin t, -cos t, sin t  for q = 0, 1, 2, 3.
TrigQuadrant(isSin, r, q) ==
  FSigned(IF isSin THEN q >= 2 ELSE q \in {1, 2},
          TrigQ(isSin = (q % 2 = 0), FAbs(FSub(r, FMulSmall(HalfPi, q)))))
TrigReduced(isSin, r) == TrigQuadrant(isSin, r, Quadrant(r))
FTrig(isSin, x) == TrigReduced(isSin, Reduce(x))

FSin(x) == FTrig(TRUE, x)
FCos(x) == FTrig(FALSE, x)

(***************************************************************************)
(* JavaScript number operations: the limb operations extended to the        *)
(* non-finite values with the IEEE 754 rules.                               *)
(***************************************************************************)
Rng(v) ==
  IF ~IsFinite(v) THEN v
  ELSE IF v[1] >= B THEN PosInf
  ELSE IF v[1] < 0 - B THEN NegInf ELSE v

\* -1, 0 or 1 for a number that is not NaN.
Sgn(x) ==
  IF IsFinite(x) THEN (IF FIsNeg(x) THEN -1 ELSE IF FIsZero(x) THEN 0 ELSE 1)
  ELSE x[1]

Neg(x) == IF IsFinite(x) THEN FNeg(x) ELSE <<0 - x[1]>>

Add(x, y) ==
  IF IsFinite(x) /\ IsFinite(y) THEN Rng(FAdd(x, y))
  ELSE IF IsNaN(x) \/ IsNaN(y) THEN NaN
  ELSE IF IsFinite(x) THEN y
  ELSE IF IsFinite(y) \/ x = y THEN x
  ELSE NaN

Sub(x, y) == Add(x, Neg(y))

Mul(x, y) ==
  IF IsFinite(x) /\ IsFinite(y) THEN Rng(FMul(x, y))
  ELSE IF IsNaN(x) \/ IsNaN(y) \/ Sgn(x) = 0 \/ Sgn(y) = 0 THEN NaN
  ELSE IF Sgn(x) = Sgn(y) THEN PosInf ELSE NegInf

Div(x, y) ==
  IF IsNaN(x) \/ IsNaN(y) THEN NaN
  ELSE IF IsFinite(x) /\ IsFinite(y) THEN
         (IF FIsZero(y)
          THEN (IF FIsZero(x) THEN NaN ELSE IF FIsNeg(x) THEN NegInf ELSE PosInf)
          ELSE Rng(FDiv(x, y)))
  ELSE IF IsFinite(x) THEN FZero
  ELSE IF ~IsFinite(y) THEN NaN
  ELSE IF (Sgn(x) < 0) # FIsNeg(y) THEN NegInf ELSE PosInf

Sqrt(x) ==
  IF IsFinite(x) THEN (IF FIsNeg(x) THEN NaN ELSE FSqrt(x))
  ELSE IF x = PosInf THEN PosInf ELSE NaN

Abs(x) == IF IsFinite(x) THEN FAbs(x) ELSE IF IsNaN(x) THEN NaN ELSE PosInf
Sin(x) == IF IsFinite(x) THEN FSin(x) ELSE NaN
Cos(x) == IF IsFinite(x) THEN FCos(x) ELSE NaN

\* x % y
Rem(x, y) ==
  IF IsNaN(x) \/ IsNaN(y) \/ ~IsFinite(x) THEN NaN
  ELSE IF ~IsFinite(y) THEN x
  ELSE IF FIsZero(y) THEN NaN
  ELSE FRem(x, FAbs(y))

\* Comparisons: every comparison with NaN is false.
Lt(x, y) ==
  IF IsNaN(x) \/ IsNaN(y) THEN FALSE
  ELSE IF IsFinite(x) /\ IsFinite(y) THEN FLess(x, y)
  ELSE IF IsFinite(x) THEN y = PosInf
  ELSE IF IsFinite(y) THEN x = NegInf
  ELSE x = NegInf /\ y = PosInf
Le(x, y) == ~IsNaN(x) /\ ~IsNaN(y) /\ (x = y \/ Lt(x, y))
Gt(x, y) == Lt(y, x)
Ge(x, y) == Le(y, x)

\* The number p / q for an integer p and a natural q in 1..199999.
Ratio(p, q) == FDivSmall(FromInt(p), q)

\* x / n for a positive integer literal n < 200000
DivInt(x, n) == IF IsFinite(x) THEN FDivSmall(x, n) ELSE x

(***************************************************************************)
(* Results and errors.                                                      *)
(***************************************************************************)
NoResult == [kind |-> "none"]
Throw(msg) == [kind |-> "error", message |-> msg]

(***************************************************************************)
(* Kepler equation solver (APPENDIX_D.md, D6): Newton-Raphson iteration     *)
(* for E - e sin E = M.                                                     *)
(***************************************************************************)
DefaultMaxIterations == 50
DefaultTolerance == <<0, 0, 0, 0, 0, 1, 0, 0>>      \* 1e-8
\* Variant of DerivativeFloor: no derivative is too small to divide by.
NoDerivativeFloor == <<0, 0, 0, 0, 0, 0, 0, 0>>

DerivativeFloor  == <<0, 0, 0, 0, 0, 0, 1, 0>>      \* 1e-12

\* Variant of AddTurnIfNegative: the normalisation without the step that lifts a negative remainder.
KeepRemainder(M) == M

\* let M = meanAnomaly % (2 * Math.PI); if (M < 0) M += 2 * Math.PI;
AddTurnIfNegative(M) == IF Lt(M, FZero) THEN Add(M, TwoPi) ELSE M
NormalizeMeanAnomaly(meanAnomaly) == AddTurnIfNegative(Rem(meanAnomaly, TwoPi))

\* let E = M + eccentricity * Math.sin(M);
InitialGuess(M, eccentricity) == Add(M, Mul(eccentricity, Sin(M)))

\* const f = E - eccentricity * Math.sin(E) - M;
KeplerF(E, eccentricity, M) == Sub(Sub(E, Mul(eccentricity, Sin(E))), M)

\* const fPrime = 1 - eccentricity * Math.cos(E);
KeplerFPrime(E, eccentricity) == Sub(FOne, Mul(eccentricity, Cos(E)))

\* Variant of NewtonDelta: the Newton step without the division by the derivative.
NewtonDeltaNoDerivative(f, fPrime) == f

\* const delta = f / fPrime;
NewtonDelta(f, fPrime) == Div(f, fPrime)

\* Variant of KeplerResult: the return statement with the convergence flag taken from the signed
\* last step, without Math.abs.
KeplerResultSignedError(E, iterations, error, tolerance) ==
  [kind             |-> "ok",
   eccentricAnomaly |-> E,
   iterations       |-> iterations,
   error            |-> Abs(error),
   converged        |-> Le(error, tolerance)]

\* The returned KeplerSolverResult.
KeplerResult(E, iterations, error, tolerance) ==
  [kind             |-> "ok",
   eccentricAnomaly |-> E,
   iterations       |-> iterations,
   error            |-> Abs(error),
   converged        |-> Le(Abs(error), tolerance)]

\* while (iterations < maxIterations && Math.abs(error) > tolerance) {
\*   f, fPrime;  if (Math.abs(fPrime) < 1e-12) break;
\*   delta = f / fPrime;  E = E - delta;  error = delta;  iterations++;  }
RECURSIVE NewtonRaphson(_, _, _, _, _, _, _)
NewtonUpdate(M, eccentricity, tolerance, maxIterations, E, iterations, delta) ==
  NewtonRaphson(M, eccentricity, tolerance, maxIterations,
                Sub(E, delta), iterations + 1, delta)
NewtonBody(M, eccentricity, tolerance, maxIterations, E, iterations, error, f, fPrime) ==
  IF Lt(Abs(fPrime), DerivativeFloor)
  THEN KeplerResult(E, iterations, error, tolerance)
  ELSE NewtonUpdate(M, eccentricity, tolerance, maxIterations, E, iterations,
                    NewtonDelta(f, fPrime))
NewtonRaphson(M, eccentricity, tolerance, maxIterations, E, iterations, error) ==
  IF iterations < maxIterations /\ Gt(Abs(error), tolerance)
  THEN NewtonBody(M, eccentricity, tolerance, maxIterations, E, iterations, error,
                  KeplerF(E, eccentricity, M), KeplerFPrime(E, eccentricity))
  ELSE KeplerResult(E, iterations, error, tolerance)

\* M and the first guess, then the loop with iterations = 0, error = tolerance + 1.
KeplerStart(M, eccentricity, tolerance, maxIterations) ==
  NewtonRaphson(M, eccentricity, tolerance, maxIterations,
                InitialGuess(M, eccentricity), 0, Add(tolerance, FOne))

solveKeplerEquation(meanAnomaly, eccentricity, tolerance, maxIterations) ==
  KeplerStart(NormalizeMeanAnomaly(meanAnomaly), eccentricity, tolerance, maxIterations)

(***************************************************************************)
(* Calls of solveKeplerEquation.                                            *)
(***************************************************************************)
MSamples   == 8     \* mean anomalies per revolution: M = 2 pi k / MSamples
EccSamples == 10    \* eccentricities k / EccSamples, k = 0 .. EccSamples - 1
MaxCap     == 2     \* small iteration caps 0 .. MaxCap, next to the default

\* (i / count) * 2 * Math.PI, as the tests sample the mean anomaly
MeanAnomalySample(k) ==
  IF k < 0 THEN FNeg(FDivSmall(FMulSmall(TwoPi, 0 - k), MSamples))
  ELSE FDivSmall(FMulSmall(TwoPi, k), MSamples)

Revolution     == {MeanAnomalySample(k) : k \in 0..(MSamples - 1)}
WideAnomalies  == {MeanAnomalySample(k) : k \in (0 - MSamples)..(2 * MSamples)}
EccMax         == Ratio(95, 100)
EccGrid        == {Ratio(k, EccSamples) : k \in 0..(EccSamples - 1)} \cup {EccMax}
InvalidEcc     == {Ratio(-1, 10), FOne, Ratio(3, 2)}
CoarseTolerance == Ratio(1, 1000)

KeplerCall(M, e, tol, cap) ==
  [meanAnomaly |-> M, eccentricity |-> e, tolerance |-> tol, maxIterations |-> cap]

KeplerCalls ==
  \* default tolerance and cap over the eccentricity / mean anomaly grid
  {KeplerCall(M, e, DefaultTolerance, DefaultMaxIterations) :
     M \in Revolution, e \in EccGrid}
  \* circular orbit, mean anomalies below 0 and above 2 pi
  \cup {KeplerCall(M, FZero, DefaultTolerance, DefaultMaxIterations) :
          M \in WideAnomalies}
  \* explicit tolerance and iteration cap
  \cup {KeplerCall(M, e, tol, cap) :
          M \in Revolution, e \in EccGrid,
          tol \in {DefaultTolerance, CoarseTolerance}, cap \in 0..MaxCap}
  \* eccentricities outside [0, 1), at M = pi as in the tests
  \cup {KeplerCall(Pi, e, DefaultTolerance, DefaultMaxIterations) : e \in InvalidEcc}
  \* eccentricity 1 at M = 0, where the derivative 1 - e cos E vanishes
  \cup {KeplerCall(FZero, FOne, DefaultTolerance, cap) : cap \in {0, DefaultMaxIterations}}

InitKepler ==
  /\ fn = "solveKeplerEquation"
  /\ args \in KeplerCalls
  /\ pc = "call"
  /\ result = NoResult

CallSolveKepler ==
  /\ fn = "solveKeplerEquation"
  /\ pc = "call"
  /\ result' = solveKeplerEquation(args.meanAnomaly, args.eccentricity,
                                   args.tolerance, args.maxIterations)
  /\ pc' = "done"
  /\ UNCHANGED <<fn, args>>

SpecKepler == InitKepler /\ [][CallSolveKepler]_vars

(***************************************************************************)
(* Properties of solveKeplerEquation.                                       *)
(***************************************************************************)
KeplerDone  == fn = "solveKeplerEquation" /\ pc = "done"
DefaultCall == args.tolerance = DefaultTolerance /\ args.maxIterations = DefaultMaxIterations
ValidEcc(e) == Le(FZero, e) /\ Lt(e, FOne)
InRevolution(M) == Le(FZero, M) /\ Lt(M, TwoPi)

\* C1: solveKeplerEquation rejects an eccentricity below 0 or at least 1
\* with an error, whatever the mean anomaly.
C1_InvalidEccentricityRejected ==
  (KeplerDone /\ ~ValidEcc(args.eccentricity)) => result.kind = "error"

\* C7: in every result of solveKeplerEquation, converged is true exactly
\* when the reported error is at most the tolerance; a call with a valid
\* eccentricity always returns a result, so that running out of iterations
\* is reported as converged = FALSE and never as a thrown error.
C7_ConvergedIffErrorWithinTolerance ==
  KeplerDone =>
    /\ result.kind = "ok" => (result.converged <=> Le(result.error, args.tolerance))
    /\ ValidEcc(args.eccentricity) => result.kind = "ok"

\* The iteration cap is exhausted with the error still above the tolerance.
C7_CapExhausted ==
  /\ KeplerDone
  /\ ValidEcc(args.eccentricity)
  /\ result.kind = "ok"
  /\ args.maxIterations > 0
  /\ result.iterations = args.maxIterations
  /\ Gt(result.error, args.tolerance)
  /\ ~result.converged

Turns == 2     \* whole revolutions between a sampled mean anomaly and [0, 2 pi)
WholeTurns(n) == IF n < 0 THEN FNeg(FMulSmall(TwoPi, 0 - n)) ELSE FMulSmall(TwoPi, n)

\* C8 (as stated): for eccentricity 0 and any mean anomaly, negative and
\* >= 2 pi included, the result has eccentricAnomaly = M, 1 iteration,
\* converged.
C8_CircularAnomalyIsM ==
  (KeplerDone /\ DefaultCall /\ args.eccentricity = FZero) =>
    /\ result.kind = "ok"
    /\ result.eccentricAnomaly = args.meanAnomaly
    /\ result.iterations = 1
    /\ result.converged

\* C8 (amended): for eccentricity 0 and any mean anomaly the result has
\* exactly 1 iteration, is converged, and its eccentricAnomaly is M
\* normalised into [0, 2 pi): it lies in [0, 2 pi), differs from M by a
\* whole number of revolutions, and equals M when M is in [0, 2 pi).
C8_CircularAnomalyIsNormalisedM ==
  (KeplerDone /\ DefaultCall /\ args.eccentricity = FZero) =>
    /\ result.kind = "ok"
    /\ result.iterations = 1
    /\ result.converged
    /\ InRevolution(result.eccentricAnomaly)
    /\ \E n \in (0 - Turns)..Turns :
          result.eccentricAnomaly = Sub(args.meanAnomaly, WholeTurns(n))
    /\ InRevolution(args.meanAnomaly) => result.eccentricAnomaly = args.meanAnomaly

\* A circular-orbit call with a negative mean anomaly has returned.
C8_NegativeAnomalySolved ==
  /\ KeplerDone /\ DefaultCall
  /\ args.eccentricity = FZero
  /\ Lt(args.meanAnomaly, FZero)
  /\ result.kind = "ok"
  /\ result.iterations = 1

\* |E - e sin E - M| of a result.
KeplerResidual ==
  Abs(Sub(Sub(result.eccentricAnomaly,
              Mul(args.eccentricity, Sin(result.eccentricAnomaly))),
          args.meanAnomaly))

\* C9: for eccentricity in [0, 0.95] and mean anomaly in [0, 2 pi), with
\* the default tolerance 1e-8 and cap 50, the result is converged and
\* |E - e sin E - M| <= tolerance.
C9_DefaultsConverge ==
  (/\ KeplerDone /\ DefaultCall
   /\ Le(FZero, args.eccentricity) /\ Le(args.eccentricity, EccMax)
   /\ InRevolution(args.meanAnomaly)) =>
    /\ result.kind = "ok"
    /\ result.converged
    /\ Le(KeplerResidual, args.tolerance)

\* A default call at eccentricity 0.95 that needed several Newton steps.
C9_HighEccentricitySolved ==
  /\ KeplerDone /\ DefaultCall
  /\ args.eccentricity = EccMax
  /\ InRevolution(args.meanAnomaly)
  /\ result.kind = "ok"
  /\ result.iterations >= 3
  /\ result.converged

\* |f'(E)| < 1e-12 at the eccentric anomaly E, for the call's eccentricity
DerivativeVanishes(E) == Lt(Abs(KeplerFPrime(E, args.eccentricity)), DerivativeFloor)

\* The first guess of the call
FirstGuess == InitialGuess(NormalizeMeanAnomaly(args.meanAnomaly), args.eccentricity)

EARTH ==
  [radius         |-> <<0, 0, 0, 6371, 0, 0, 0, 0>>,        \* km
   mu             |-> <<0, 0, 39, 8600, 4418, 0, 0, 0>>,     \* 398600.4418 km^3/s^2
   soi            |-> <<0, 0, 92, 4000, 0, 0, 0, 0>>,        \* 924000 km
   rotationPeriod |-> <<0, 0, 8, 6400, 0, 0, 0, 0>>]         \* 86400 s

\* Math.max
Max(x, y) == IF IsNaN(x) \/ IsNaN(y) THEN NaN ELSE IF Lt(x, y) THEN y ELSE x

\* Math.pow(x, 3)
Cube(x) == Mul(Mul(x, x), x)

\* Number.prototype.toFixed(digits), as the number the digits denote:
\* the magnitude rounded half up to `digits` decimals.
ToFixed(x, digits) ==
  IF ~IsFinite(x) THEN x
  ELSE FSigned(FIsNeg(x),
               FDivSmallMag(FTruncMag(FAdd(FMulSmall(FAbs(x), 10^digits), Ratio(1, 2))),
                            10^digits))

\* return 2 * Math.PI * Math.sqrt(Math.pow(semiMajorAxis, 3) / EARTH.mu);
orbitalPeriod(semiMajorAxis) ==
  Mul(Mul(FTwo, Pi), Sqrt(Div(Cube(semiMajorAxis), EARTH.mu)))

\* Variant of orbitalVelocity: the speed of the circular orbit at the radius.
CircularSpeedAtRadius(radius, semiMajorAxis) == Sqrt(Div(EARTH.mu, radius))

\* return Math.sqrt(EARTH.mu * (2 / radius - 1 / semiMajorAxis));
orbitalVelocity(radius, semiMajorAxis) ==
  Sqrt(Mul(EARTH.mu, Sub(Div(FTwo, radius), Div(FOne, semiMajorAxis))))

\* return Math.sqrt(EARTH.mu / radius);
circularVelocity(radius) == Sqrt(Div(EARTH.mu, radius))

(***************************************************************************)
(* calculateHohmannTransfer.  `now` is the clock reading of new Date() and  *)
(* Date.now() during the call, in milliseconds.                             *)
(***************************************************************************)
Thousand == <<0, 0, 0, 1000, 0, 0, 0, 0>>
SameRadiusTolerance == Ratio(1, 10)

\* Variant of HohmannInvalid: only the initial radius is validated.
OnlyInitialChecked(initialRadius, finalRadius) == Le(initialRadius, EARTH.radius)

\* if (initialRadius <= EARTH.radius || finalRadius <= EARTH.radius)
HohmannInvalid(initialRadius, finalRadius) ==
  Le(initialRadius, EARTH.radius) \/ Le(finalRadius, EARTH.radius)

\* Variant of SameRadius: only identical radii count as the same orbit.
SameRadiusExact(initialRadius, finalRadius) == initialRadius = finalRadius

\* if (Math.abs(initialRadius - finalRadius) < 0.1)
SameRadius(initialRadius, finalRadius) ==
  Lt(Abs(Sub(initialRadius, finalRadius)), SameRadiusTolerance)

SameRadiusResult(now) ==
  [kind         |-> "ok",
   deltaV1      |-> FZero,
   deltaV2      |-> FZero,
   totalDeltaV  |-> FZero,
   transferTime |-> FZero,
   phase        |-> FZero,
   burnTime1    |-> now,
   burnTime2    |-> now,
   explanation  |-> "No transfer needed - same orbital radius"]

\* Variant of BurnMagnitude: the signed velocity change, without Math.abs.
BurnSigned(vAfter, vBefore) == Mul(Sub(vAfter, vBefore), Thousand)

\* Math.abs(vAfter - vBefore) * 1000, a burn in m/s
BurnMagnitude(vAfter, vBefore) == Mul(Abs(Sub(vAfter, vBefore)), Thousand)

\* The template string, as the sequence of its fixed and computed parts.
generateTransferExplanation(r1, r2, dv1, dv2, time) ==
  <<"This Hohmann transfer moves from ", ToFixed(Sub(r1, EARTH.radius), 0),
    "km to ", ToFixed(Sub(r2, EARTH.radius), 0), "km altitude.",
    "First burn: ", ToFixed(dv1, 1), " m/s to ",
    IF Gt(r2, r1) THEN "raise apogee" ELSE "lower perigee",
    "Second burn: ", ToFixed(dv2, 1), " m/s to circularise at ",
    IF Gt(r2, r1) THEN "higher" ELSE "lower", " altitude",
    "Transfer time: ", ToFixed(DivInt(time, 3600), 1), " hours">>

\* totalDeltaV, phase, explanation and the returned TransferResult.
HohmannReturn(initialRadius, finalRadius, now, deltaV1, deltaV2, transferTime) ==
  [kind         |-> "ok",
   deltaV1      |-> deltaV1,
   deltaV2      |-> deltaV2,
   totalDeltaV  |-> Add(deltaV1, deltaV2),
   transferTime |-> transferTime,
   phase        |-> Mul(FromInt(180),
                        Sub(FOne, Div(transferTime, orbitalPeriod(finalRadius)))),
   burnTime1    |-> now,
   burnTime2    |-> Add(now, Mul(transferTime, Thousand)),
   explanation  |-> generateTransferExplanation(initialRadius, finalRadius,
                                                deltaV1, deltaV2, transferTime)]

\* Variant of HohmannDeltaV: the departure burn is left out.
HohmannArrivalBurnOnly(initialRadius, finalRadius, now, transferSMA, v1Initial, v1Transfer, v2Transfer, v2Final) ==
  HohmannReturn(initialRadius, finalRadius, now,
                FZero,
                BurnMagnitude(v2Final, v2Transfer),
                DivInt(orbitalPeriod(transferSMA), 2))

\* deltaV1, deltaV2 and transferTime from the four velocities.
HohmannDeltaV(initialRadius, finalRadius, now, transferSMA, v1Initial, v1Transfer, v2Transfer, v2Final) ==
  HohmannReturn(initialRadius, finalRadius, now,
                BurnMagnitude(v1Transfer, v1Initial),
                BurnMagnitude(v2Final, v2Transfer),
                DivInt(orbitalPeriod(transferSMA), 2))

\* Variant of HohmannVelocities: the transfer-orbit velocity at arrival is
\* taken at the initial radius.
HohmannVelocitiesAtDeparture(initialRadius, finalRadius, now, transferSMA) ==
  HohmannDeltaV(initialRadius, finalRadius, now, transferSMA,
                circularVelocity(initialRadius),
                orbitalVelocity(initialRadius, transferSMA),
                orbitalVelocity(initialRadius, transferSMA),
                circularVelocity(finalRadius))

\* v1Initial, v1Transfer, v2Transfer, v2Final
HohmannVelocities(initialRadius, finalRadius, now, transferSMA) ==
  HohmannDeltaV(initialRadius, finalRadius, now, transferSMA,
                circularVelocity(initialRadius),
                orbitalVelocity(initialRadius, transferSMA),
                orbitalVelocity(finalRadius, transferSMA),
                circularVelocity(finalRadius))

calculateHohmannTransfer(initialRadius, finalRadius, now) ==
  IF HohmannInvalid(initialRadius, finalRadius)
  THEN Throw("Both radii must be greater than Earth's radius")
  ELSE IF SameRadius(initialRadius, finalRadius)
  THEN SameRadiusResult(now)
  ELSE HohmannVelocities(initialRadius, finalRadius, now,
                         DivInt(Add(initialRadius, finalRadius), 2))

(***************************************************************************)
(* calculateBiEllipticTransfer.                                             *)
(***************************************************************************)
BiEllipticMessage == "Intermediate radius must be greater than both initial and final radii"

\* Variant of IntermediateTooLow: an intermediate radius equal to the larger
\* endpoint radius is let through.
IntermediateBelowMax(initialRadius, finalRadius, intermediateRadius) ==
  Lt(intermediateRadius, Max(initialRadius, finalRadius))

\* if (intermediateRadius <= Math.max(initialRadius, finalRadius))
IntermediateTooLow(initialRadius, finalRadius, intermediateRadius) ==
  Le(intermediateRadius, Max(initialRadius, finalRadius))

BiEllipticExplanation(intermediateRadius, deltaV1, deltaV2, deltaV3, deltaV4, totalTransferTime) ==
  <<"Bi-elliptic transfer uses an intermediate orbit at ",
    ToFixed(Sub(intermediateRadius, EARTH.radius), 0), "km.",
    "This can be more efficient than Hohmann for large orbital changes (ratio > 11.94).",
    "Phase 1: Burn ", ToFixed(deltaV1, 0), " m/s to reach intermediate orbit",
    "Phase 2: Burn ", ToFixed(deltaV2, 0), " m/s to circularise at intermediate",
    "Phase 3: Burn ", ToFixed(deltaV3, 0), " m/s to start final transfer",
    "Phase 4: Burn ", ToFixed(deltaV4, 0), " m/s to circularise at target",
    "Total transfer time: ", ToFixed(DivInt(totalTransferTime, 3600), 1),
    " hours">>

\* Variant of BiEllipticReturn: deltaV2 is the second burn alone.
BiEllipticSecondBurnAlone(intermediateRadius, now, deltaV1, deltaV2, deltaV3, deltaV4, totalTransferTime) ==
  [kind         |-> "ok",
   deltaV1      |-> deltaV1,
   deltaV2      |-> deltaV2,
   totalDeltaV  |-> Add(Add(Add(deltaV1, deltaV2), deltaV3), deltaV4),
   transferTime |-> totalTransferTime,
   phase        |-> FZero,
   burnTime1    |-> now,
   burnTime2    |-> Add(now, Mul(totalTransferTime, Thousand)),
   explanation  |-> BiEllipticExplanation(intermediateRadius, deltaV1, deltaV2,
                                          deltaV3, deltaV4, totalTransferTime)]

\* totalDeltaV, the explanation and the returned TransferResult.
BiEllipticReturn(intermediateRadius, now, deltaV1, deltaV2, deltaV3, deltaV4, totalTransferTime) ==
  [kind         |-> "ok",
   deltaV1      |-> deltaV1,
   deltaV2      |-> Add(deltaV2, deltaV3),
   totalDeltaV  |-> Add(Add(Add(deltaV1, deltaV2), deltaV3), deltaV4),
   transferTime |-> totalTransferTime,
   phase        |-> FZero,
   burnTime1    |-> now,
   burnTime2    |-> Add(now, Mul(totalTransferTime, Thousand)),
   explanation  |-> BiEllipticExplanation(intermediateRadius, deltaV1, deltaV2,
                                          deltaV3, deltaV4, totalTransferTime)]

\* The four burns and the two half-ellipse times from the seven velocities.
BiEllipticDeltaV(intermediateRadius, now, transferSMA1, transferSMA2, v1Initial, v1Transfer, v1Intermediate, v1IntermediateCircular, v2Transfer, v2Final, v2FinalCircular) ==
  BiEllipticReturn(intermediateRadius, now,
                   BurnMagnitude(v1Transfer, v1Initial),
                   BurnMagnitude(v1IntermediateCircular, v1Intermediate),
                   BurnMagnitude(v2Transfer, v1IntermediateCircular),
                   BurnMagnitude(v2FinalCircular, v2Final),
                   Add(DivInt(orbitalPeriod(transferSMA1), 2),
                       DivInt(orbitalPeriod(transferSMA2), 2)))

\* The velocities of the two transfer ellipses.
BiEllipticVelocities(initialRadius, finalRadius, intermediateRadius, now, transferSMA1, transferSMA2) ==
  BiEllipticDeltaV(intermediateRadius, now, transferSMA1, transferSMA2,
                   circularVelocity(initialRadius),
                   orbitalVelocity(initialRadius, transferSMA1),
                   orbitalVelocity(intermediateRadius, transferSMA1),
                   circularVelocity(intermediateRadius),
                   orbitalVelocity(intermediateRadius, transferSMA2),
                   orbitalVelocity(finalRadius, transferSMA2),
                   circularVelocity(finalRadius))

calculateBiEllipticTransfer(initialRadius, finalRadius, intermediateRadius, now) ==
  IF \/ Le(initialRadius, EARTH.radius)
     \/ Le(finalRadius, EARTH.radius)
     \/ Le(intermediateRadius, EARTH.radius)
  THEN Throw(BiEllipticMessage)
  ELSE IF IntermediateTooLow(initialRadius, finalRadius, intermediateRadius)
  THEN Throw(BiEllipticMessage)
  ELSE BiEllipticVelocities(initialRadius, finalRadius, intermediateRadius, now,
                            DivInt(Add(initialRadius, intermediateRadius), 2),
                            DivInt(Add(intermediateRadius, finalRadius), 2))

(***************************************************************************)
(* Calls of the two transfer functions.                                     *)
(***************************************************************************)
OrbitSteps == 5    \* altitudes 400 * 3^(k - 1) km, k = 1 .. OrbitSteps
NearSteps  == 2    \* radii 0.05 km apart next to the lowest orbit
BiSteps    == 4    \* altitude steps used for the bi-elliptic transfer
ClockTicks == 2    \* clock readings, one second apart

LadderRadius(k) == Add(EARTH.radius, FromInt(400 * 3^(k - 1)))
NearRadius(j)   == Add(LadderRadius(1), Ratio(5 * j, 100))
\* below the surface, on it, and 50 m above it
SurfaceRadii    == {FromInt(6000), EARTH.radius, Add(EARTH.radius, Ratio(5, 100))}
\* EARTH.radius + 35786, the geostationary radius of the LEO to GEO scenario
GeoRadius       == Add(EARTH.radius, FromInt(35786))
\* more than 15.58 times the lowest orbit's radius
FarRadii        == {Add(EARTH.radius, FromInt(100000)), Add(EARTH.radius, FromInt(190000))}
HohmannRadii ==
  SurfaceRadii \cup {LadderRadius(k) : k \in 1..OrbitSteps}
               \cup {NearRadius(j) : j \in 1..NearSteps}
               \cup FarRadii \cup {GeoRadius}
BiEllipticRadii ==
  {FromInt(6000), EARTH.radius} \cup {LadderRadius(k) : k \in 1..BiSteps}
Clock == {FromInt(1000 * t) : t \in 0..(ClockTicks - 1)}

InitHohmann ==
  /\ fn = "calculateHohmannTransfer"
  /\ args \in [initialRadius : HohmannRadii, finalRadius : HohmannRadii, now : Clock]
  /\ pc = "call"
  /\ result = NoResult

InitBiElliptic ==
  /\ fn = "calculateBiEllipticTransfer"
  /\ args \in [initialRadius : BiEllipticRadii, finalRadius : BiEllipticRadii,
               intermediateRadius : BiEllipticRadii, now : Clock]
  /\ pc = "call"
  /\ result = NoResult

InitTransfer == InitHohmann \/ InitBiElliptic

CallHohmann ==
  /\ fn = "calculateHohmannTransfer"
  /\ pc = "call"
  /\ result' = calculateHohmannTransfer(args.initialRadius, args.finalRadius, args.now)
  /\ pc' = "done"
  /\ UNCHANGED <<fn, args>>

CallBiElliptic ==
  /\ fn = "calculateBiEllipticTransfer"
  /\ pc = "call"
  /\ result' = calculateBiEllipticTransfer(args.initialRadius, args.finalRadius,
                                           args.intermediateRadius, args.now)
  /\ pc' = "done"
  /\ UNCHANGED <<fn, args>>

NextTransfer == CallHohmann \/ CallBiElliptic

SpecTransfer == InitTransfer /\ [][NextTransfer]_vars

(***************************************************************************)
(* Properties of the transfer functions.                                    *)
(***************************************************************************)
HohmannDone    == fn = "calculateHohmannTransfer" /\ pc = "done"
BiEllipticDone == fn = "calculateBiEllipticTransfer" /\ pc = "done"
AboveSurface(r) == Gt(r, EARTH.radius)

\* C2: calculateHohmannTransfer fails with the validation error whenever
\* the initial or the final radius is at most the body radius, whichever of
\* the two it is, also when the two radii are equal.
C2_HohmannRejectsLowRadii ==
  (HohmannDone /\ (~AboveSurface(args.initialRadius) \/ ~AboveSurface(args.finalRadius))) =>
    /\ result.kind = "error"
    /\ result.message = "Both radii must be greater than Earth's radius"

\* Two equal radii on or below the surface have been rejected.
C2_EqualLowRadiiRejected ==
  /\ HohmannDone
  /\ args.initialRadius = args.finalRadius
  /\ ~AboveSurface(args.initialRadius)
  /\ result.kind = "error"

\* C3: for two radii above the body radius that differ by less than 0.1,
\* calculateHohmannTransfer returns a result with deltaV1 = deltaV2 =
\* totalDeltaV = 0, transferTime = 0 and a non-empty explanation.
C3_SameRadiusGivesZeroTransfer ==
  (/\ HohmannDone
   /\ AboveSurface(args.initialRadius) /\ AboveSurface(args.finalRadius)
   /\ Lt(Abs(Sub(args.initialRadius, args.finalRadius)), SameRadiusTolerance)) =>
    /\ result.kind = "ok"
    /\ result.deltaV1 = FZero
    /\ result.deltaV2 = FZero
    /\ result.totalDeltaV = FZero
    /\ result.transferTime = FZero
    /\ result.explanation # ""

\* Two different radii less than 0.1 km apart have given the zero result.
C3_NearRadiiZeroResult ==
  /\ HohmannDone
  /\ AboveSurface(args.initialRadius) /\ AboveSurface(args.finalRadius)
  /\ args.initialRadius # args.finalRadius
  /\ Lt(Abs(Sub(args.initialRadius, args.finalRadius)), SameRadiusTolerance)
  /\ result.kind = "ok"
  /\ result.totalDeltaV = FZero

\* C6: calculateBiEllipticTransfer fails with the validation error whenever
\* the intermediate radius is at most max(r1, r2), equality included; it
\* returns a result only when the intermediate radius is greater than both
\* endpoint radii and all three radii are greater than the body radius.
C6_BiEllipticValidation ==
  BiEllipticDone =>
    /\ Le(args.intermediateRadius, Max(args.initialRadius, args.finalRadius)) =>
         (result.kind = "error" /\ result.message = BiEllipticMessage)
    /\ result.kind = "ok" =>
         /\ Gt(args.intermediateRadius, args.initialRadius)
         /\ Gt(args.intermediateRadius, args.finalRadius)
         /\ AboveSurface(args.initialRadius)
         /\ AboveSurface(args.finalRadius)
         /\ AboveSurface(args.intermediateRadius)

\* An intermediate radius equal to the larger endpoint radius, all three
\* above the surface, has been rejected.
C6_EqualIntermediateRejected ==
  /\ BiEllipticDone
  /\ AboveSurface(args.initialRadius) /\ AboveSurface(args.finalRadius)
  /\ args.intermediateRadius = Max(args.initialRadius, args.finalRadius)
  /\ result.kind = "error"

\* C10: every result of calculateHohmannTransfer, the equal-radii result
\* included, has totalDeltaV = deltaV1 + deltaV2, deltaV1 >= 0 and
\* deltaV2 >= 0.
C10_HohmannTotalIsSum ==
  (HohmannDone /\ result.kind = "ok") =>
    /\ result.totalDeltaV = Add(result.deltaV1, result.deltaV2)
    /\ Ge(result.deltaV1, FZero)
    /\ Ge(result.deltaV2, FZero)

\* A transfer down to a lower orbit has returned a positive total.
C10_DescendingTransferDone ==
  /\ HohmannDone
  /\ result.kind = "ok"
  /\ Gt(args.initialRadius, args.finalRadius)
  /\ Gt(result.deltaV1, FZero)
  /\ Gt(result.deltaV2, FZero)
  /\ Gt(result.totalDeltaV, FZero)

\* The call with the two radii exchanged, at the same clock reading.
ReverseTransfer == calculateHohmannTransfer(args.finalRadius, args.initialRadius, args.now)

SameBurns(forward, reverse) ==
  /\ reverse.kind = "ok"
  /\ reverse.totalDeltaV = forward.totalDeltaV
  /\ reverse.deltaV1 = forward.deltaV2
  /\ reverse.deltaV2 = forward.deltaV1
  /\ reverse.transferTime = forward.transferTime

\* C11: for radii r1, r2 above the surface, calculateHohmannTransfer(r2, r1)
\* has the same totalDeltaV as calculateHohmannTransfer(r1, r2) (equal, hence
\* within 1%), its deltaV1 and deltaV2 are the other call's deltaV2 and
\* deltaV1, and its transferTime is the same.
C11_HohmannSymmetry ==
  (HohmannDone /\ result.kind = "ok") => SameBurns(result, ReverseTransfer)

\* A transfer between two different orbits whose two burns differ has
\* returned.
C11_UnequalBurnsDone ==
  /\ HohmannDone
  /\ result.kind = "ok"
  /\ Gt(args.finalRadius, args.initialRadius)
  /\ Gt(result.deltaV1, result.deltaV2)
  /\ Gt(result.deltaV2, FZero)

\* |r2 - r1|, the size of the orbital change
RadiusChange(r1, r2) == Abs(Sub(r2, r1))

\* totalDeltaV of the transfer from the call's initial radius to `target`
TotalTo(target) == calculateHohmannTransfer(args.initialRadius, target, args.now).totalDeltaV

\* `target` is a valid target whose orbital change is larger than the call's.
LargerChange(target) ==
  /\ AboveSurface(target)
  /\ Lt(RadiusChange(args.initialRadius, args.finalRadius),
        RadiusChange(args.initialRadius, target))

\* `target` lies on the same side of the initial radius as the call's final
\* radius (the final radius may be the initial radius itself).
SameSide(target) ==
  \/ Ge(args.finalRadius, args.initialRadius) /\ Gt(target, args.initialRadius)
  \/ Le(args.finalRadius, args.initialRadius) /\ Lt(target, args.initialRadius)

\* The larger of the two radii is at most 15 times the smaller: below 15.58,
\* the radius ratio of the largest total delta-v.
WithinPeak(r1, r2) ==
  /\ Le(r1, Mul(FromInt(15), r2))
  /\ Le(r2, Mul(FromInt(15), r1))

\* C12 as stated: for a fixed valid r1 and any valid targets r2a, r2b with
\* |r2a - r1| < |r2b - r1|, the total delta-v to r2a is strictly less than
\* the total delta-v to r2b.
C12_TotalIncreasesWithChange ==
  (HohmannDone /\ result.kind = "ok") =>
    \A target \in HohmannRadii :
      LargerChange(target) => Lt(result.totalDeltaV, TotalTo(target))

\* C12: for a fixed valid r1 and valid targets r2a, r2b on the same side of
\* r1 with |r2a - r1| < |r2b - r1|, where r2b differs from r1 by at least 0.1
\* km and r1, r2b are within a factor 15 of each other, the total
\* delta-v to r2a is strictly less than the total delta-v to r2b.
C12_TotalIncreasesBelowPeak ==
  (HohmannDone /\ result.kind = "ok") =>
    \A target \in HohmannRadii :
      ( /\ LargerChange(target)
        /\ SameSide(target)
        /\ ~SameRadius(args.initialRadius, target)
        /\ WithinPeak(args.initialRadius, target) ) =>
      Lt(result.totalDeltaV, TotalTo(target))

\* A transfer to a higher orbit has returned, and a valid target farther
\* up, within the peak ratio, exists.
C12_SmallerRaiseDone ==
  /\ HohmannDone
  /\ result.kind = "ok"
  /\ Gt(args.finalRadius, args.initialRadius)
  /\ Gt(result.totalDeltaV, FZero)
  /\ \E target \in HohmannRadii :
       /\ LargerChange(target) /\ SameSide(target)
       /\ WithinPeak(args.initialRadius, target)

\* C21: a transfer call returns the same TransferResult, field by field,
\* at whatever time it is made: the result of the call equals the result of
\* the same call at every other clock reading.
C21_TransferResultIndependentOfTime ==
  /\ (HohmannDone /\ result.kind = "ok") =>
       \A t \in Clock :
         calculateHohmannTransfer(args.initialRadius, args.finalRadius, t) = result
  /\ (BiEllipticDone /\ result.kind = "ok") =>
       \A t \in Clock :
         calculateBiEllipticTransfer(args.initialRadius, args.finalRadius,
                                     args.intermediateRadius, t) = result

\* |x - target| <= target * percent / 100
WithinPercent(x, target, percent) ==
  Le(Abs(Sub(x, FromInt(target))), DivInt(FromInt(target * percent), 100))

LeoToGeo == args.initialRadius = LadderRadius(1) /\ args.finalRadius = GeoRadius

\* C22: the transfer from EARTH.radius + 400 to EARTH.radius + 35786 has
\* deltaV1 within 2% of 2400 m/s, deltaV2 within 2% of 1470 m/s, totalDeltaV
\* within 1% of 3870 m/s and a transferTime between 4 and 6 hours.
C22_LeoToGeoScenario ==
  (HohmannDone /\ LeoToGeo) =>
    /\ result.kind = "ok"
    /\ WithinPercent(result.deltaV1, 2400, 2)
    /\ WithinPercent(result.deltaV2, 1470, 2)
    /\ WithinPercent(result.totalDeltaV, 3870, 1)
    /\ Ge(result.transferTime, FromInt(4 * 3600))
    /\ Le(result.transferTime, FromInt(6 * 3600))

\* The LEO to GEO transfer has returned.
C22_LeoToGeoDone == HohmannDone /\ LeoToGeo /\ result.kind = "ok"

\* The burns of the bi-elliptic call, each from its two velocities.
FirstBurn ==
  BurnMagnitude(orbitalVelocity(args.initialRadius,
                                DivInt(Add(args.initialRadius, args.intermediateRadius), 2)),
                circularVelocity(args.initialRadius))
SecondBurn ==
  BurnMagnitude(circularVelocity(args.intermediateRadius),
                orbitalVelocity(args.intermediateRadius,
                                DivInt(Add(args.initialRadius, args.intermediateRadius), 2)))
ThirdBurn ==
  BurnMagnitude(orbitalVelocity(args.intermediateRadius,
                                DivInt(Add(args.intermediateRadius, args.finalRadius), 2)),
                circularVelocity(args.intermediateRadius))
FinalBurn ==
  BurnMagnitude(circularVelocity(args.finalRadius),
                orbitalVelocity(args.finalRadius,
                                DivInt(Add(args.intermediateRadius, args.finalRadius), 2)))

\* C27: in every result of calculateBiEllipticTransfer, deltaV1 is the first
\* burn, deltaV2 the sum of the two burns at the intermediate radius,
\* totalDeltaV the sum of the four burns, so that totalDeltaV - (deltaV1 +
\* deltaV2) is the final circularisation burn; transferTime is the sum of
\* the two half-ellipse times and phase is 0.
C27_BiEllipticSums ==
  (BiEllipticDone /\ result.kind = "ok") =>
    /\ result.deltaV1 = FirstBurn
    /\ result.deltaV2 = Add(SecondBurn, ThirdBurn)
    /\ result.totalDeltaV = Add(Add(Add(FirstBurn, SecondBurn), ThirdBurn), FinalBurn)
    /\ Sub(result.totalDeltaV, Add(result.deltaV1, result.deltaV2)) = FinalBurn
    /\ result.transferTime =
         Add(DivInt(orbitalPeriod(DivInt(Add(args.initialRadius, args.intermediateRadius), 2)), 2),
             DivInt(orbitalPeriod(DivInt(Add(args.intermediateRadius, args.finalRadius), 2)), 2))
    /\ result.phase = FZero

\* A bi-elliptic transfer with four positive burns has returned.
C27_FourBurnsDone ==
  /\ BiEllipticDone
  /\ result.kind = "ok"
  /\ Gt(FirstBurn, FZero) /\ Gt(SecondBurn, FZero)
  /\ Gt(ThirdBurn, FZero) /\ Gt(FinalBurn, FZero)
  /\ Gt(result.deltaV2, SecondBurn)

(***************************************************************************)
(* elementsToStateVector.  Math.cos and Math.sin of the true anomaly, which *)
(* the source evaluates at each use, are evaluated once.  An epoch is the   *)
(* Date's time in milliseconds.                                             *)
(***************************************************************************)
\* return degrees * Math.PI / 180;
degToRad(degrees) == DivInt(Mul(degrees, Pi), 180)

\* (cosO * cosw - sinO * sinw * cosi) * u + (-cosO * sinw - sinO * cosw * cosi) * v
InertialX(u, v, t) ==
  Add(Mul(Sub(Mul(t.cosRaan, t.cosArgP), Mul(Mul(t.sinRaan, t.sinArgP), t.cosInc)), u),
      Mul(Sub(Mul(Neg(t.cosRaan), t.sinArgP), Mul(Mul(t.sinRaan, t.cosArgP), t.cosInc)), v))

\* (sinO * cosw + cosO * sinw * cosi) * u + (-sinO * sinw + cosO * cosw * cosi) * v
InertialY(u, v, t) ==
  Add(Mul(Add(Mul(t.sinRaan, t.cosArgP), Mul(Mul(t.cosRaan, t.sinArgP), t.cosInc)), u),
      Mul(Add(Mul(Neg(t.sinRaan), t.sinArgP), Mul(Mul(t.cosRaan, t.cosArgP), t.cosInc)), v))

\* (sinw * sini) * u + (cosw * sini) * v
InertialZ(u, v, t) ==
  Add(Mul(Mul(t.sinArgP, t.sinInc), u), Mul(Mul(t.cosArgP, t.sinInc), v))

\* x, y, z and vx, vy, vz from the orbital-plane components, and the return.
StateOfOrbital(elements, t, xOrbital, yOrbital, vxOrbital, vyOrbital) ==
  [kind     |-> "ok",
   position |-> <<InertialX(xOrbital, yOrbital, t),
                  InertialY(xOrbital, yOrbital, t),
                  InertialZ(xOrbital, yOrbital, t)>>,
   velocity |-> <<InertialX(vxOrbital, vyOrbital, t),
                  InertialY(vxOrbital, vyOrbital, t),
                  InertialZ(vxOrbital, vyOrbital, t)>>,
   time     |-> elements.epoch]

\* xOrbital, yOrbital, vxOrbital, vyOrbital from the radius r and the
\* angular momentum h.
StateOfRadius(elements, t, r, h) ==
  StateOfOrbital(elements, t,
                 Mul(r, t.cosNu),
                 Mul(r, t.sinNu),
                 Mul(Div(Neg(EARTH.mu), h), t.sinNu),
                 Mul(Div(EARTH.mu, h), Add(elements.eccentricity, t.cosNu)))

\* r = a * (1 - e * e) / (1 + e * cos(nu)); h = sqrt(mu * a * (1 - e * e))
StateOfTrig(elements, t) ==
  StateOfRadius(elements, t,
    Div(Mul(elements.semiMajorAxis,
            Sub(FOne, Mul(elements.eccentricity, elements.eccentricity))),
        Add(FOne, Mul(elements.eccentricity, t.cosNu))),
    Sqrt(Mul(Mul(EARTH.mu, elements.semiMajorAxis),
             Sub(FOne, Mul(elements.eccentricity, elements.eccentricity)))))

\* The cosines and sines of the four angles, in radians.
StateOfAngles(elements, i, raan, argP, nu) ==
  StateOfTrig(elements,
              [cosNu   |-> Cos(nu),   sinNu   |-> Sin(nu),
               cosRaan |-> Cos(raan), sinRaan |-> Sin(raan),
               cosArgP |-> Cos(argP), sinArgP |-> Sin(argP),
               cosInc  |-> Cos(i),    sinInc  |-> Sin(i)])

elementsToStateVector(elements) ==
  StateOfAngles(elements,
                degToRad(elements.inclination),
                degToRad(elements.raan),
                degToRad(elements.argumentOfPeriapsis),
                degToRad(elements.trueAnomaly))

(***************************************************************************)
(* getApsides and calculateOrbitalCharacteristics.                          *)
(***************************************************************************)
\* Variant of getApsides: the two factors are exchanged.
ApsidesExchanged(semiMajorAxis, eccentricity) ==
  [apogee  |-> Mul(semiMajorAxis, Sub(FOne, eccentricity)),
   perigee |-> Mul(semiMajorAxis, Add(FOne, eccentricity))]

getApsides(semiMajorAxis, eccentricity) ==
  [apogee  |-> Mul(semiMajorAxis, Add(FOne, eccentricity)),
   perigee |-> Mul(semiMajorAxis, Sub(FOne, eccentricity))]

SemiMajorAxisMessage == "Semi-major axis must be greater than Earth's radius"
EccentricityMessage  == "Eccentricity must be between 0 and 1 for elliptical orbits"

\* Variant of ValidationError: the eccentricity is checked before the
\* semi-major axis.
EccentricityCheckedFirst(semiMajorAxis, eccentricity) ==
  IF Lt(eccentricity, FZero) \/ Ge(eccentricity, FOne) THEN EccentricityMessage
  ELSE IF Le(semiMajorAxis, EARTH.radius) THEN SemiMajorAxisMessage
  ELSE ""

\* Input validation: the message of the error thrown, "" when none is.
ValidationError(semiMajorAxis, eccentricity) ==
  IF Le(semiMajorAxis, EARTH.radius) THEN SemiMajorAxisMessage
  ELSE IF Lt(eccentricity, FZero) \/ Ge(eccentricity, FOne) THEN EccentricityMessage
  ELSE ""

\* Math.sqrt(v[0]**2 + v[1]**2 + v[2]**2)
Magnitude(v) ==
  Sqrt(Add(Add(Mul(v[1], v[1]), Mul(v[2], v[2])), Mul(v[3], v[3])))

\* Orbital type description, first match.
GroundTrack(altitudeKm, inclination) ==
  IF /\ Gt(altitudeKm, FromInt(35700)) /\ Lt(altitudeKm, FromInt(35900))
     /\ Lt(inclination, FOne)
  THEN "Geostationary Orbit"
  ELSE IF Gt(altitudeKm, FromInt(35000)) THEN "High Earth Orbit"
  ELSE IF Gt(altitudeKm, FromInt(2000)) THEN "Medium Earth Orbit"
  ELSE IF Gt(inclination, FromInt(89)) /\ Lt(inclination, FromInt(91)) THEN "Polar Orbit"
  ELSE IF Lt(Abs(Sub(inclination, Ratio(987, 10))), FTwo) THEN "Sun-Synchronous"
  ELSE "Low Earth Orbit"

CharacteristicsReturn(elements, currentRadius, velocity, apsides) ==
  [kind             |-> "ok",
   altitude         |-> Sub(currentRadius, EARTH.radius),
   period           |-> DivInt(orbitalPeriod(elements.semiMajorAxis), 60),
   velocity         |-> velocity,
   apogee           |-> Sub(apsides.apogee, EARTH.radius),
   perigee          |-> Sub(apsides.perigee, EARTH.radius),
   eccentricity     |-> elements.eccentricity,
   inclination      |-> elements.inclination,
   energy           |-> Div(Neg(EARTH.mu), Mul(FTwo, elements.semiMajorAxis)),
   semiMajorAxis    |-> elements.semiMajorAxis,
   escapeVelocity   |-> Sqrt(Div(Mul(FTwo, EARTH.mu), currentRadius)),
   circularVelocity |-> circularVelocity(currentRadius),
   meanMotion       |-> Mul(Sqrt(Div(EARTH.mu, Cube(elements.semiMajorAxis))),
                            Div(FromInt(180), Pi)),
   groundTrack      |-> GroundTrack(Sub(currentRadius, EARTH.radius),
                                    elements.inclination)]

\* currentRadius and velocity: the state object is always truthy.
CharacteristicsOfState(elements, state) ==
  CharacteristicsReturn(elements, Magnitude(state.position), Magnitude(state.velocity),
                        getApsides(elements.semiMajorAxis, elements.eccentricity))

CharacteristicsChecked(elements, error) ==
  IF error # "" THEN Throw(error)
  ELSE CharacteristicsOfState(elements, elementsToStateVector(elements))

calculateOrbitalCharacteristics(elements) ==
  CharacteristicsChecked(elements,
                         ValidationError(elements.semiMajorAxis, elements.eccentricity))

(***************************************************************************)
(* Calls of elementsToStateVector and calculateOrbitalCharacteristics.      *)
(***************************************************************************)
SmaSteps     == 2    \* semi-major axes above the surface: LadderRadius(1 .. SmaSteps)
AnomalySteps == 4    \* true anomalies 360 k / AnomalySteps degrees

SemiMajorAxes  == {FromInt(6000), EARTH.radius} \cup {LadderRadius(k) : k \in 1..SmaSteps}
Eccentricities == {Ratio(-1, 10), FZero, Ratio(1, 2), FOne, Ratio(3, 2)}
Inclinations   == {FZero, Ratio(516, 10), FromInt(90), Ratio(987, 10)}
ArgsOfPeriapsis == {FZero, FromInt(90)}
TrueAnomalies  == {FDivSmall(FromInt(360 * k), AnomalySteps) : k \in 0..(AnomalySteps - 1)}

ElementsSet ==
  [semiMajorAxis       : SemiMajorAxes,
   eccentricity        : Eccentricities,
   inclination         : Inclinations,
   raan                : {FromInt(45)},
   argumentOfPeriapsis : ArgsOfPeriapsis,
   trueAnomaly         : TrueAnomalies,
   epoch               : {FZero}]

InitElements ==
  /\ fn \in {"elementsToStateVector", "calculateOrbitalCharacteristics"}
  /\ args \in [elements : ElementsSet]
  /\ pc = "call"
  /\ result = NoResult

CallElementsToStateVector ==
  /\ fn = "elementsToStateVector"
  /\ pc = "call"
  /\ result' = elementsToStateVector(args.elements)
  /\ pc' = "done"
  /\ UNCHANGED <<fn, args>>

CallCharacteristics ==
  /\ fn = "calculateOrbitalCharacteristics"
  /\ pc = "call"
  /\ result' = calculateOrbitalCharacteristics(args.elements)
  /\ pc' = "done"
  /\ UNCHANGED <<fn, args>>

NextElements == CallElementsToStateVector \/ CallCharacteristics

SpecElements == InitElements /\ [][NextElements]_vars

(***************************************************************************)
(* Properties of elementsToStateVector and calculateOrbitalCharacteristics. *)
(***************************************************************************)
StateVectorDone     == fn = "elementsToStateVector" /\ pc = "done"
CharacteristicsDone == fn = "calculateOrbitalCharacteristics" /\ pc = "done"

SmaTooLow == Le(args.elements.semiMajorAxis, EARTH.radius)
EccOutOfRange ==
  Lt(args.elements.eccentricity, FZero) \/ Ge(args.elements.eccentricity, FOne)

\* C4: calculateOrbitalCharacteristics throws exactly when semiMajorAxis <=
\* body radius or eccentricity < 0 or eccentricity >= 1; the error is the
\* semi-major-axis error whenever the semi-major axis is too low (also when
\* the eccentricity is out of range as well) and the eccentricity error
\* otherwise; every other input gives a result.
C4_CharacteristicsValidation ==
  CharacteristicsDone =>
    /\ result.kind \in {"ok", "error"}
    /\ result.kind = "error" <=> (SmaTooLow \/ EccOutOfRange)
    /\ SmaTooLow => (result.kind = "error" /\ result.message = SemiMajorAxisMessage)
    /\ (~SmaTooLow /\ EccOutOfRange) =>
         (result.kind = "error" /\ result.message = EccentricityMessage)

\* Both invariants are violated and the semi-major-axis error is thrown.
C4_BothViolated ==
  /\ CharacteristicsDone
  /\ SmaTooLow /\ EccOutOfRange
  /\ result.kind = "error"
  /\ result.message = SemiMajorAxisMessage

\* 1 + e * cos(nu), the denominator of the conic equation
ConicDenominator ==
  Add(FOne, Mul(args.elements.eccentricity, Cos(degToRad(args.elements.trueAnomaly))))

\* C5: elementsToStateVector signals an error when the elements are
\* invalid: semiMajorAxis <= body radius, eccentricity outside [0, 1), or
\* 1 + e * cos(nu) = 0; and it never returns a state vector with a
\* non-finite component.
C5_InvalidElementsRejected ==
  StateVectorDone =>
    /\ (SmaTooLow \/ EccOutOfRange \/ ConicDenominator = FZero) => result.kind = "error"
    /\ result.kind = "ok" =>
         \A k \in 1..3 : IsFinite(result.position[k]) /\ IsFinite(result.velocity[k])

\* C19: whenever calculateOrbitalCharacteristics returns a result, the
\* orbit does not intersect the body: the returned perigee altitude and the
\* returned current altitude are >= 0.
C19_AcceptedOrbitClearsBody ==
  (CharacteristicsDone /\ result.kind = "ok") =>
    /\ Ge(result.perigee, FZero)
    /\ Ge(result.altitude, FZero)

PolarBand(inclination) == Gt(inclination, FromInt(89)) /\ Lt(inclination, FromInt(91))
SunSynchronousBand(inclination) == Lt(Abs(Sub(inclination, Ratio(987, 10))), FTwo)
AltitudeLabels == {"Low Earth Orbit", "Medium Earth Orbit", "High Earth Orbit"}

\* C20: the label of an accepted orbit that is not geostationary is "Polar
\* Orbit" whenever 89 < inclination < 91 and "Sun-Synchronous" whenever
\* |inclination - 98.7| < 2, at every altitude; a low, medium or high
\* altitude label is returned only when neither inclination rule matches.
C20_InclinationRulesBeforeAltitude ==
  ( /\ CharacteristicsDone
    /\ result.kind = "ok"
    /\ result.groundTrack # "Geostationary Orbit" ) =>
    /\ PolarBand(args.elements.inclination) => result.groundTrack = "Polar Orbit"
    /\ SunSynchronousBand(args.elements.inclination) =>
         result.groundTrack = "Sun-Synchronous"
    /\ result.groundTrack \in AltitudeLabels =>
         /\ ~PolarBand(args.elements.inclination)
         /\ ~SunSynchronousBand(args.elements.inclination)

(***************************************************************************)
(* propagateOrbit.  The body of its try block cannot throw for a record of  *)
(* numbers and a Date, so the catch branch, which returns [], is never      *)
(* taken.                                                                   *)
(***************************************************************************)
\* Variant of radToDeg: the angle is left in radians.
RadiansKept(radians) == radians

\* return radians * 180 / Math.PI;
radToDeg(radians) == Div(Mul(radians, FromInt(180)), Pi)

DateLimit == <<8640, 0, 0, 0, 0, 0, 0, 0>>         \* 8.64e15 ms, the range of a Date

\* new Date(ms), as its time value: whole milliseconds, NaN outside the range
NewDate(ms) ==
  IF ~IsFinite(ms) \/ Gt(Abs(ms), DateLimit) THEN NaN
  ELSE FSigned(FIsNeg(ms), FTruncMag(FAbs(ms)))

\* Variant of CurrentTime: the elapsed time is counted from one step ahead.
CurrentTimeFromOne(timeSeconds, i) == Mul(timeSeconds, FromInt(i + 1))

\* const currentTime = timeSeconds * i;
CurrentTime(timeSeconds, i) == Mul(timeSeconds, FromInt(i))

\* Variant of PropagatedElements: the inclination drifts with the anomaly.
PropagatedWithDrift(initialElements, meanMotion, currentTime) ==
  [initialElements EXCEPT
     !.inclination = Add(@, radToDeg(Mul(meanMotion, currentTime))),
     !.trueAnomaly = Rem(Add(@, radToDeg(Mul(meanMotion, currentTime))), FromInt(360)),
     !.epoch       = NewDate(Add(@, Mul(currentTime, Thousand)))]

\* deltaAnomaly, newTrueAnomaly and newElements of one step
PropagatedElements(initialElements, meanMotion, currentTime) ==
  [initialElements EXCEPT
     !.trueAnomaly = Rem(Add(@, radToDeg(Mul(meanMotion, currentTime))), FromInt(360)),
     !.epoch       = NewDate(Add(@, Mul(currentTime, Thousand)))]

\* The for loop: results[i] for i = 0 .. steps - 1, as elements 1 .. steps.
PropagateLoop(initialElements, timeSeconds, steps, meanMotion) ==
  [kind  |-> "ok",
   value |-> [k \in 1..steps |->
                PropagatedElements(initialElements, meanMotion,
                                   CurrentTime(timeSeconds, k - 1))]]

propagateOrbit(initialElements, timeSeconds, steps) ==
  PropagateLoop(initialElements, timeSeconds, steps,
                Div(Mul(FTwo, Pi), orbitalPeriod(initialElements.semiMajorAxis)))

(***************************************************************************)
(* generateOrbitTrajectory.                                                 *)
(***************************************************************************)
\* Variant of SampleAngle: the samples are numbered from one.
SampleAngleFromOne(i, numPoints) ==
  Mul(Div(FromInt(i + 1), FromInt(numPoints)), FromInt(360))

\* const angle = (i / numPoints) * 360;
SampleAngle(i, numPoints) == Mul(Div(FromInt(i), FromInt(numPoints)), FromInt(360))

\* The conversion returned a state with a position (state?.position).
HasPosition(state) == state.kind = "ok" /\ "position" \in DOMAIN state

\* The point pushed for one sample: none when the conversion threw or gave
\* no position.
TrajectoryPoint(state, angle) ==
  IF HasPosition(state) THEN <<[position |-> state.position, angle |-> angle]>>
  ELSE <<>>

\* tempElements and its conversion
SamplePoint(elements, angle) ==
  TrajectoryPoint(elementsToStateVector([elements EXCEPT !.trueAnomaly = angle]), angle)

RECURSIVE TrajectoryFrom(_, _, _)
\* The for loop from sample i on.
TrajectoryFrom(elements, numPoints, i) ==
  IF i < numPoints
  THEN SamplePoint(elements, SampleAngle(i, numPoints))
         \o TrajectoryFrom(elements, numPoints, i + 1)
  ELSE <<>>

generateOrbitTrajectory(elements, numPoints) ==
  [kind |-> "ok", value |-> TrajectoryFrom(elements, numPoints, 0)]

(***************************************************************************)
(* Calls of propagateOrbit and generateOrbitTrajectory.                     *)
(***************************************************************************)
MaxSteps  == 3    \* propagateOrbit: steps in 0 .. MaxSteps
MaxPoints == 4    \* generateOrbitTrajectory: numPoints in 0 .. MaxPoints

Epochs == {FZero, <<1, 7000, 0, 0, 0, 0, 0, 0>>}   \* 1970-01-01 and 1.7e12 ms

PropagatedSet ==
  [semiMajorAxis       : {FromInt(6000), LadderRadius(1)},
   eccentricity        : {Ratio(1, 1000), Ratio(3, 2)},
   inclination         : {Ratio(516, 10)},
   raan                : {FromInt(45)},
   argumentOfPeriapsis : {FZero},
   trueAnomaly         : {FromInt(-90), FZero, FromInt(350), FromInt(725)},
   epoch               : Epochs]

Durations == {FromInt(-600), FZero, FromInt(60), FromInt(86400)}

SampledSet ==
  [semiMajorAxis       : {FromInt(6000), LadderRadius(1)},
   eccentricity        : {Ratio(1, 1000), FOne, Ratio(3, 2)},
   inclination         : {Ratio(516, 10)},
   raan                : {FromInt(45)},
   argumentOfPeriapsis : {FZero, FromInt(90)},
   trueAnomaly         : {FZero},
   epoch               : {FZero}]

InitPropagate ==
  /\ fn = "propagateOrbit"
  /\ args \in [initialElements : PropagatedSet, timeSeconds : Durations,
               steps : 0..MaxSteps]
  /\ pc = "call"
  /\ result = NoResult

InitTrajectory ==
  /\ fn = "generateOrbitTrajectory"
  /\ args \in [elements : SampledSet, numPoints : 0..MaxPoints]
  /\ pc = "call"
  /\ result = NoResult

InitPropagation == InitPropagate \/ InitTrajectory

CallPropagateOrbit ==
  /\ fn = "propagateOrbit"
  /\ pc = "call"
  /\ result' = propagateOrbit(args.initialElements, args.timeSeconds, args.steps)
  /\ pc' = "done"
  /\ UNCHANGED <<fn, args>>

CallGenerateTrajectory ==
  /\ fn = "generateOrbitTrajectory"
  /\ pc = "call"
  /\ result' = generateOrbitTrajectory(args.elements, args.numPoints)
  /\ pc' = "done"
  /\ UNCHANGED <<fn, args>>

NextPropagation == CallPropagateOrbit \/ CallGenerateTrajectory

SpecPropagation == InitPropagation /\ [][NextPropagation]_vars

(***************************************************************************)
(* Properties of propagateOrbit and generateOrbitTrajectory.                *)
(***************************************************************************)
PropagateDone  == fn = "propagateOrbit" /\ pc = "done"
TrajectoryDone == fn = "generateOrbitTrajectory" /\ pc = "done"

\* The fields that the propagator holds fixed are those of the initial
\* elements in every element of the returned sequence.
FixedFieldsKept ==
  (PropagateDone /\ result.kind = "ok") =>
    \A k \in 1..Len(result.value) :
      /\ result.value[k].semiMajorAxis = args.initialElements.semiMajorAxis
      /\ result.value[k].eccentricity = args.initialElements.eccentricity
      /\ result.value[k].inclination = args.initialElements.inclination
      /\ result.value[k].raan = args.initialElements.raan
      /\ result.value[k].argumentOfPeriapsis = args.initialElements.argumentOfPeriapsis

\* C13: every element returned by propagateOrbit has the semiMajorAxis,
\* eccentricity, inclination, raan and argumentOfPeriapsis of the initial
\* elements, and the call leaves the caller's arguments, the initial
\* elements record included, as they were.
C13_OnlyAnomalyAndEpochChange == [](FixedFieldsKept) /\ [][args' = args]_vars

\* A propagation over several steps has returned elements whose true
\* anomaly and epoch differ from the initial ones.
C13_AnomalyAndEpochAdvanced ==
  /\ PropagateDone
  /\ result.kind = "ok"
  /\ Len(result.value) = MaxSteps
  /\ result.value[MaxSteps].trueAnomaly # args.initialElements.trueAnomaly
  /\ result.value[MaxSteps].epoch # args.initialElements.epoch

\* C14: propagateOrbit returns exactly `steps` elements; element i
\* (0-indexed) has epoch = initial epoch + timeSeconds * i seconds, so the
\* first element is at the initial epoch and the last one at
\* timeSeconds * (steps - 1).
C14_EpochIsDurationTimesIndex ==
  PropagateDone =>
    /\ result.kind = "ok"
    /\ Len(result.value) = args.steps
    /\ \A k \in 1..args.steps :
         result.value[k].epoch =
           Add(args.initialElements.epoch,
               Mul(Mul(args.timeSeconds, FromInt(k - 1)), Thousand))
    /\ args.steps >= 1 => result.value[1].epoch = args.initialElements.epoch

\* A propagation with a non-zero duration has returned MaxSteps elements.
C14_SeveralStepsDone ==
  /\ PropagateDone
  /\ result.kind = "ok"
  /\ args.steps = MaxSteps
  /\ Len(result.value) = MaxSteps
  /\ Gt(args.timeSeconds, FZero)
  /\ Gt(result.value[MaxSteps].epoch, result.value[2].epoch)

\* C15: every trueAnomaly returned by propagateOrbit lies in [0, 360), for
\* any initial trueAnomaly and any duration, negative ones included.
C15_AnomalyWrapped ==
  (PropagateDone /\ result.kind = "ok") =>
    \A k \in 1..Len(result.value) :
      /\ Ge(result.value[k].trueAnomaly, FZero)
      /\ Lt(result.value[k].trueAnomaly, FromInt(360))

\* C16: propagateOrbit fails as a whole when the initial elements are
\* invalid (semiMajorAxis <= body radius or eccentricity outside [0, 1)):
\* it returns no sequence for such input.
C16_InvalidInitialElementsRejected ==
  ( /\ PropagateDone
    /\ ValidationError(args.initialElements.semiMajorAxis,
                       args.initialElements.eccentricity) # "" ) =>
  result.kind = "error"

\* degrees(meanMotion * elapsed), with meanMotion = 2 pi / orbitalPeriod(a)
AdvanceInDegrees(semiMajorAxis, elapsed) ==
  Div(Mul(Mul(Div(Mul(FTwo, Pi), orbitalPeriod(semiMajorAxis)), elapsed), FromInt(180)), Pi)

TrajectoryAngles == [k \in 1..Len(result.value) |-> result.value[k].angle]

\* The sample numbers i whose conversion gives a position.
ConvertedSamples ==
  {i \in 0..(args.numPoints - 1) :
     HasPosition(elementsToStateVector(
       [args.elements EXCEPT !.trueAnomaly = SampleAngle(i, args.numPoints)]))}

InitApsides ==
  /\ fn = "getApsides"
  /\ args \in [semiMajorAxis : {LadderRadius(k) : k \in 1..OrbitSteps},
               eccentricity  : EccGrid]
  /\ pc = "call"
  /\ result = NoResult

CallGetApsides ==
  /\ fn = "getApsides"
  /\ pc = "call"
  /\ result' = getApsides(args.semiMajorAxis, args.eccentricity)
  /\ pc' = "done"
  /\ UNCHANGED <<fn, args>>

SpecApsides == InitApsides /\ [][CallGetApsides]_vars

ApsidesDone == fn = "getApsides" /\ pc = "done"

\* orbitalVelocity(perigee, a) and orbitalVelocity(apogee, a) of the result
VelocityAtPerigee == orbitalVelocity(result.perigee, args.semiMajorAxis)
VelocityAtApogee  == orbitalVelocity(result.apogee, args.semiMajorAxis)

\* C18: for a valid semi-major axis a and 0 <= e < 1, getApsides gives
\* perigee <= a <= apogee, and the orbital velocity at perigee is at least
\* the orbital velocity at apogee, and greater when e > 0.
C18_ApsidesOrdering ==
  ApsidesDone =>
    /\ Le(result.perigee, args.semiMajorAxis)
    /\ Le(args.semiMajorAxis, result.apogee)
    /\ Ge(VelocityAtPerigee, VelocityAtApogee)
    /\ Gt(args.eccentricity, FZero) => Gt(VelocityAtPerigee, VelocityAtApogee)

\* The apsides of an eccentric orbit have been returned, the perigee below
\* the apogee.
C18_EccentricApsidesDone ==
  /\ ApsidesDone
  /\ Gt(args.eccentricity, FZero)
  /\ Lt(result.perigee, result.apogee)
  /\ Gt(VelocityAtPerigee, VelocityAtApogee)

(***************************************************************************)
(* The share URL and the page (app/page.tsx).  For a React component, fn is *)
(* the component, args its environment, result its state as of the last     *)
(* render and pc the point it has reached in its life.                      *)
(*                                                                          *)
(* A string is the sequence of its characters.  Number.prototype.toString   *)
(* writes the decimal digits of the number; the inputs are 0 or at least    *)
(* 1e-6 in magnitude, so no exponent is written.  URLSearchParams leaves    *)
(* the characters toString produces here (digits, "-", ".") as they are,    *)
(* so get() returns the string that was written.                            *)
(***************************************************************************)
DigitChars == <<"0", "1", "2", "3", "4", "5", "6", "7", "8", "9">>

\* The four decimal digits of a limb
LimbDigits(n) == <<n \div 1000, (n \div 100) % 10, (n \div 10) % 10, n % 10>>

RECURSIVE DropLeadingZeros(_)
DropLeadingZeros(digits) ==
  IF Len(digits) > 1 /\ Head(digits) = 0 THEN DropLeadingZeros(Tail(digits)) ELSE digits

RECURSIVE DropTrailingZeros(_)
DropTrailingZeros(digits) ==
  IF Len(digits) > 0 /\ digits[Len(digits)] = 0
  THEN DropTrailingZeros(SubSeq(digits, 1, Len(digits) - 1))
  ELSE digits

Chars(digits) == [k \in 1..Len(digits) |-> DigitChars[digits[k] + 1]]

\* The digits after the point, with the point, or nothing for a whole number
FractionChars(digits) == IF Len(digits) = 0 THEN <<>> ELSE <<".">> \o Chars(digits)

\* toString of a finite number from its magnitude
MagnitudeToString(negative, x) ==
  (IF negative THEN <<"-">> ELSE <<>>)
    \o Chars(DropLeadingZeros(LimbDigits(x[1]) \o LimbDigits(x[2])
                                \o LimbDigits(x[3]) \o LimbDigits(x[4])))
    \o FractionChars(DropTrailingZeros(LimbDigits(x[5]) \o LimbDigits(x[6])
                                         \o LimbDigits(x[7]) \o LimbDigits(x[8])))

\* Number.prototype.toString()
NumberToString(x) ==
  IF IsNaN(x) THEN <<"N", "a", "N">>
  ELSE IF x = PosInf THEN <<"I", "n", "f", "i", "n", "i", "t", "y">>
  ELSE IF x = NegInf THEN <<"-", "I", "n", "f", "i", "n", "i", "t", "y">>
  ELSE MagnitudeToString(FIsNeg(x), FAbs(x))

IsDigit(c) == \E d \in 1..10 : DigitChars[d] = c
DigitValue(c) == (CHOOSE d \in 1..10 : DigitChars[d] = c) - 1

\* digit * 10^(-place), for the first 16 decimal places; further digits are
\* below the resolution of the number model
DecimalPlace(digit, place) ==
  IF place > 4 * NF THEN FZero
  ELSE [k \in 1..(NI + NF) |->
          IF k = NI + 1 + ((place - 1) \div 4)
          THEN digit * 10^(3 - ((place - 1) % 4)) ELSE 0]

RECURSIVE ParseFraction(_, _, _, _)
\* The digits after the point, from character i on
ParseFraction(s, i, place, acc) ==
  IF i <= Len(s) /\ IsDigit(s[i])
  THEN ParseFraction(s, i + 1, place + 1, FAdd(acc, DecimalPlace(DigitValue(s[i]), place)))
  ELSE acc

RECURSIVE ParseWhole(_, _, _, _)
\* The digits before the point, from character i on; `seen` tells whether a
\* digit has been read
ParseWhole(s, i, seen, acc) ==
  IF i <= Len(s) /\ IsDigit(s[i])
  THEN ParseWhole(s, i + 1, TRUE, Rng(FAdd(FMulSmall(acc, 10), FromInt(DigitValue(s[i])))))
  ELSE IF i < Len(s) /\ s[i] = "." /\ IsDigit(s[i + 1])
  THEN ParseFraction(s, i + 1, 1, acc)
  ELSE IF seen THEN acc ELSE NaN

\* parseFloat(s) for a decimal literal with an optional sign; NaN when the
\* string does not start with one (the empty string included)
parseFloat(s) ==
  IF Len(s) > 0 /\ s[1] = "-" THEN Neg(ParseWhole(s, 2, FALSE, FZero))
  ELSE ParseWhole(s, 1, FALSE, FZero)

\* a || b for numbers: 0 and NaN are falsy
OrElse(a, b) == IF IsNaN(a) \/ a = FZero THEN b ELSE a

\* handleShare: new URLSearchParams({sma: ..., ecc: ..., ...})
ShareParams(orbitalElements) ==
  [sma  |-> NumberToString(orbitalElements.semiMajorAxis),
   ecc  |-> NumberToString(orbitalElements.eccentricity),
   inc  |-> NumberToString(orbitalElements.inclination),
   raan |-> NumberToString(orbitalElements.raan),
   aop  |-> NumberToString(orbitalElements.argumentOfPeriapsis),
   ta   |-> NumberToString(orbitalElements.trueAnomaly)]

\* ORBITAL_PRESETS.ISS, the initial elements of the page
IssPreset(now) ==
  [semiMajorAxis       |-> Add(EARTH.radius, FromInt(408)),
   eccentricity        |-> Ratio(3, 10000),
   inclination         |-> Ratio(516, 10),
   raan                |-> FZero,
   argumentOfPeriapsis |-> FZero,
   trueAnomaly         |-> FZero,
   epoch               |-> now]

\* sharedElements of the URL effect: parseFloat(urlParams.get(key) || '') ||
\* elements[key]
SharedElements(urlParams, elements, now) ==
  [semiMajorAxis       |-> OrElse(parseFloat(urlParams.sma), elements.semiMajorAxis),
   eccentricity        |-> OrElse(parseFloat(urlParams.ecc), elements.eccentricity),
   inclination         |-> OrElse(parseFloat(urlParams.inc), elements.inclination),
   raan                |-> OrElse(parseFloat(urlParams.raan), elements.raan),
   argumentOfPeriapsis |-> OrElse(parseFloat(urlParams.aop), elements.argumentOfPeriapsis),
   trueAnomaly         |-> OrElse(parseFloat(urlParams.ta), elements.trueAnomaly),
   epoch               |-> now]

\* The object returned by the catch branch of the characteristics memo
FallbackCharacteristics ==
  [altitude         |-> FZero,
   period           |-> FZero,
   velocity         |-> FZero,
   apogee           |-> FZero,
   perigee          |-> FZero,
   eccentricity     |-> FZero,
   inclination      |-> FZero,
   energy           |-> FZero,
   semiMajorAxis    |-> EARTH.radius,
   escapeVelocity   |-> FZero,
   circularVelocity |-> FZero,
   meanMotion       |-> FZero,
   groundTrack      |-> "Unknown"]

\* The value a call returned
Returned(outcome) == [f \in DOMAIN outcome \ {"kind"} |-> outcome[f]]

\* The value of the characteristics memo: try { return ... } catch { ... }
MemoValue(computed, previous) ==
  IF computed.kind = "error" THEN FallbackCharacteristics ELSE Returned(computed)

\* The state of the page after a render.  lastComputed is the last value
\* calculateOrbitalCharacteristics returned; the page does not keep it.
Rendered(urlParams, elements, currentTrueAnomaly, previous, computed) ==
  [urlParams          |-> urlParams,
   elements           |-> elements,
   currentTrueAnomaly |-> currentTrueAnomaly,
   characteristics    |-> MemoValue(computed, previous),
   lastComputed       |-> IF computed.kind = "error" THEN previous ELSE Returned(computed)]

\* A render: currentElements = {...elements, trueAnomaly: currentTrueAnomaly}
Render(urlParams, elements, currentTrueAnomaly, previous) ==
  Rendered(urlParams, elements, currentTrueAnomaly, previous,
           calculateOrbitalCharacteristics(
             [elements EXCEPT !.trueAnomaly = currentTrueAnomaly]))

(***************************************************************************)
(* Sharing a set of elements and opening the page with the share URL.       *)
(***************************************************************************)
SharedSet ==
  [semiMajorAxis       : {FromInt(6000), Add(EARTH.radius, Ratio(8005, 10)), GeoRadius},
   eccentricity        : {FZero, Ratio(3, 10000), Ratio(74, 100)},
   inclination         : {FZero, Ratio(516, 10), Ratio(987, 10)},
   raan                : {FZero, FromInt(45)},
   argumentOfPeriapsis : {FZero, FromInt(270)},
   trueAnomaly         : {FZero, Ratio(1205, 10)},
   epoch               : {FZero}]

InitPage ==
  /\ fn = "AstrodynamicsPlayground"
  /\ args \in [orbitalElements : SharedSet, now : Clock]
  /\ pc = "share"
  /\ result = NoResult

\* handleShare builds the parameters of the share URL.
HandleShare ==
  /\ fn = "AstrodynamicsPlayground"
  /\ pc = "share"
  /\ result' = [urlParams |-> ShareParams(args.orbitalElements)]
  /\ pc' = "shared"
  /\ UNCHANGED <<fn, args>>

\* The page is opened with the share URL: the first render, with the preset.
MountPage ==
  /\ fn = "AstrodynamicsPlayground"
  /\ pc = "shared"
  /\ result' = Render(result.urlParams, IssPreset(args.now), FZero, NoResult)
  /\ pc' = "mounted"
  /\ UNCHANGED <<fn, args>>

\* The URL effect (the URL has 'sma') and the render that setElements causes.
LoadSharedElements ==
  /\ fn = "AstrodynamicsPlayground"
  /\ pc = "mounted"
  /\ result' = Render(result.urlParams,
                      SharedElements(result.urlParams, result.elements, args.now),
                      result.currentTrueAnomaly, result.lastComputed)
  /\ pc' = "loaded"
  /\ UNCHANGED <<fn, args>>

\* The effect on elements.trueAnomaly and the render that
\* setCurrentTrueAnomaly causes.
SyncTrueAnomaly ==
  /\ fn = "AstrodynamicsPlayground"
  /\ pc = "loaded"
  /\ result' = Render(result.urlParams, result.elements, result.elements.trueAnomaly,
                      result.lastComputed)
  /\ pc' = "synced"
  /\ UNCHANGED <<fn, args>>

NextPage == HandleShare \/ MountPage \/ LoadSharedElements \/ SyncTrueAnomaly

SpecPage == InitPage /\ [][NextPage]_vars

(***************************************************************************)
(* Properties of the share URL and the page.                                *)
(***************************************************************************)
PageLoaded == fn = "AstrodynamicsPlayground" /\ pc \in {"loaded", "synced"}

\* C23: for valid shared elements, the page opened with the share URL has
\* the semiMajorAxis, eccentricity, inclination, raan, argumentOfPeriapsis
\* and trueAnomaly that were shared.
C23_ShareUrlRoundTrip ==
  ( /\ PageLoaded
    /\ ValidationError(args.orbitalElements.semiMajorAxis,
                       args.orbitalElements.eccentricity) = "" ) =>
    /\ result.elements.semiMajorAxis = args.orbitalElements.semiMajorAxis
    /\ result.elements.eccentricity = args.orbitalElements.eccentricity
    /\ result.elements.inclination = args.orbitalElements.inclination
    /\ result.elements.raan = args.orbitalElements.raan
    /\ result.elements.argumentOfPeriapsis = args.orbitalElements.argumentOfPeriapsis
    /\ result.elements.trueAnomaly = args.orbitalElements.trueAnomaly

\* calculateOrbitalCharacteristics fails for the page's current elements.
CharacteristicsFail ==
  calculateOrbitalCharacteristics(
    [result.elements EXCEPT !.trueAnomaly = result.currentTrueAnomaly]).kind = "error"

\* C28: when calculateOrbitalCharacteristics fails for the page's current
\* elements, the characteristics on display are the last ones that were
\* computed successfully.
C28_LastGoodCharacteristicsKept ==
  (PageLoaded /\ CharacteristicsFail) => result.characteristics = result.lastComputed

(***************************************************************************)
(* The tutorial system (components/tutorial-system.tsx) inside the page.    *)
(* result holds the React state: the committed tutorialState, the           *)
(* tutorialState of the last render (the one the handlers of that render    *)
(* have closed over), the page's learningLevel and showTutorials, whether   *)
(* the component is mounted, the auto-start timers that are pending and     *)
(* the number of handler invocations since the last render.  `closed`       *)
(* remembers what closeTutorial last closed; the program does not keep it.  *)
(* pc names the step taken last.                                            *)
(***************************************************************************)
MaxInvocations == 2    \* handler invocations between two renders
MaxTimers == 2         \* auto-start timers pending at once

LearningLevels == {"beginner", "intermediate", "advanced"}

\* TUTORIALS: the ids of the steps of each tutorial
TUTORIALS ==
  [basic_orbit      |-> <<"basic-intro", "altitude-control", "period-observation">>,
   hohmann_transfer |-> <<"hohmann-intro", "initial-orbit", "target-orbit">>]

\* The initial tutorialState; "none" stands for null
InitialTutorialState ==
  [activeTutorial |-> "none", currentStep |-> 0, completedSteps |-> {}, isVisible |-> FALSE]

NothingClosed == [tutorial |-> "none", currentStep |-> 0, completedSteps |-> {}]

\* The component renders the tutorial card rather than the launcher
ShowsTutorial(tutorialState) ==
  tutorialState.isVisible /\ tutorialState.activeTutorial # "none"

\* tutorial[currentStep] is a step of the active tutorial
StepInRange(tutorialState) ==
  /\ 0 <= tutorialState.currentStep
  /\ tutorialState.currentStep <= Len(TUTORIALS[tutorialState.activeTutorial]) - 1

\* The condition of the auto-start effect
AutoStartCondition(learningLevel, showExplanations, tutorialState) ==
  learningLevel = "beginner" /\ showExplanations /\ tutorialState.activeTutorial = "none"

\* setTimeout(...): one more timer, within the bound
WithTimer(timers, scheduled) ==
  IF scheduled /\ timers < MaxTimers THEN timers + 1 ELSE timers

\* The state startTutorial(tutorialKey) sets
Started(tutorialState, tutorialKey) ==
  [activeTutorial |-> tutorialKey, currentStep |-> 0, completedSteps |-> {}, isVisible |-> TRUE]

\* The page after its first render and the effects of that render
InitTutorial ==
  /\ fn = "TutorialSystem"
  /\ args \in [showExplanations : BOOLEAN]
  /\ pc = "mount"
  /\ result = [learningLevel  |-> "beginner",
               renderedLevel  |-> "beginner",
               showTutorials  |-> TRUE,
               mounted        |-> TRUE,
               tutorialState  |-> InitialTutorialState,
               rendered       |-> InitialTutorialState,
               timers         |-> WithTimer(0, AutoStartCondition("beginner",
                                     args.showExplanations, InitialTutorialState)),
               invocations    |-> 0,
               closed         |-> NothingClosed]

TutorialRunning == fn = "TutorialSystem" /\ pc # "crashed"

\* A handler of the last render can be invoked
HandlerAvailable ==
  TutorialRunning /\ result.mounted /\ result.invocations < MaxInvocations

\* A launcher button: startTutorial(tutorialKey); the Hohmann button is
\* rendered for the other levels only
StartTutorial ==
  /\ HandlerAvailable
  /\ ~ShowsTutorial(result.rendered)
  /\ \E tutorialKey \in DOMAIN TUTORIALS :
       /\ tutorialKey = "hohmann_transfer" => result.renderedLevel # "beginner"
       /\ result' = [result EXCEPT !.tutorialState = Started(@, tutorialKey),
                                   !.invocations = @ + 1]
  /\ pc' = "startTutorial"
  /\ UNCHANGED <<fn, args>>

\* nextStep: the guard and newCompleted read the rendered tutorialState, the
\* update increments the committed currentStep; on the last step
\* completeTutorial resets the state and calls onClose
NextStep ==
  /\ HandlerAvailable
  /\ ShowsTutorial(result.rendered)
  /\ result' =
       IF result.rendered.currentStep < Len(TUTORIALS[result.rendered.activeTutorial]) - 1
       THEN [result EXCEPT
               !.tutorialState.currentStep = @ + 1,
               !.tutorialState.completedSteps =
                  result.rendered.completedSteps \cup
                    {TUTORIALS[result.rendered.activeTutorial][result.rendered.currentStep + 1]},
               !.invocations = @ + 1]
       ELSE [result EXCEPT !.tutorialState = InitialTutorialState,
                           !.showTutorials = FALSE,
                           !.invocations = @ + 1]
  /\ pc' = "nextStep"
  /\ UNCHANGED <<fn, args>>

\* previousStep: the guard reads the rendered currentStep, the update
\* decrements the committed one
PreviousStep ==
  /\ HandlerAvailable
  /\ ShowsTutorial(result.rendered)
  /\ result.rendered.currentStep > 0
  /\ result' = [result EXCEPT !.tutorialState.currentStep = @ - 1,
                              !.invocations = @ + 1]
  /\ pc' = "previousStep"
  /\ UNCHANGED <<fn, args>>

\* closeTutorial (the X button and "Skip tutorial"): hides the tutorial and
\* calls onClose, which sets the page's showTutorials to false
CloseTutorial ==
  /\ HandlerAvailable
  /\ ShowsTutorial(result.rendered)
  /\ result' = [result EXCEPT
                  !.tutorialState.isVisible = FALSE,
                  !.showTutorials = FALSE,
                  !.invocations = @ + 1,
                  !.closed = [tutorial       |-> result.tutorialState.activeTutorial,
                              currentStep    |-> result.tutorialState.currentStep,
                              completedSteps |-> result.tutorialState.completedSteps]]
  /\ pc' = "closeTutorial"
  /\ UNCHANGED <<fn, args>>

\* A pending auto-start timer fires: startTutorial('basic_orbit')
AutoStartFires ==
  /\ TutorialRunning
  /\ result.mounted
  /\ result.timers > 0
  /\ result' = [result EXCEPT !.tutorialState = Started(@, "basic_orbit"),
                              !.timers = @ - 1]
  /\ pc' = "autoStart"
  /\ UNCHANGED <<fn, args>>

\* The page's keys '1', '2', '3': setLearningLevel
SetLearningLevel ==
  /\ TutorialRunning
  /\ \E level \in LearningLevels \ {result.learningLevel} :
       result' = [result EXCEPT !.learningLevel = level]
  /\ pc' = "setLearningLevel"
  /\ UNCHANGED <<fn, args>>

\* The page's key 't': setShowTutorials(!showTutorials), with showTutorials
\* as of the last render
ToggleTutorials ==
  /\ TutorialRunning
  /\ result.showTutorials = result.mounted
  /\ result' = [result EXCEPT !.showTutorials = ~result.mounted]
  /\ pc' = "toggleTutorials"
  /\ UNCHANGED <<fn, args>>

\* showTutorials has become true: a new TutorialSystem is mounted, with the
\* initial state, and its auto-start effect runs.
MountTutorialSystem ==
  [result EXCEPT
     !.mounted = TRUE,
     !.renderedLevel = result.learningLevel,
     !.tutorialState = InitialTutorialState,
     !.rendered = InitialTutorialState,
     !.timers = WithTimer(0, AutoStartCondition(result.learningLevel,
                                args.showExplanations, InitialTutorialState)),
     !.invocations = 0]

\* showTutorials has become false: the TutorialSystem is unmounted and its
\* state is gone.  Its timers stay pending, but what they set is the state of
\* the unmounted component, which nothing reads.
UnmountTutorialSystem ==
  [result EXCEPT
     !.mounted = FALSE,
     !.renderedLevel = result.learningLevel,
     !.tutorialState = InitialTutorialState,
     !.rendered = InitialTutorialState,
     !.timers = 0,
     !.invocations = 0]

\* A render of the mounted TutorialSystem commits the state; the auto-start
\* effect runs again when learningLevel has changed.
RenderTutorialSystem ==
  [result EXCEPT
     !.renderedLevel = result.learningLevel,
     !.rendered = result.tutorialState,
     !.timers = WithTimer(@, /\ result.renderedLevel # result.learningLevel
                             /\ AutoStartCondition(result.learningLevel,
                                  args.showExplanations, result.tutorialState)),
     !.invocations = 0]

\* React renders the page.  Rendering the tutorial card reads
\* tutorial[currentStep].action, which throws when the step does not exist.
RenderPage ==
  /\ TutorialRunning
  /\ \/ result.showTutorials # result.mounted
     \/ result.mounted /\ ( \/ result.rendered # result.tutorialState
                            \/ result.renderedLevel # result.learningLevel
                            \/ result.invocations > 0 )
  /\ IF result.showTutorials /\ result.mounted
        /\ ShowsTutorial(result.tutorialState) /\ ~StepInRange(result.tutorialState)
     THEN pc' = "crashed" /\ UNCHANGED result
     ELSE /\ pc' = "render"
          /\ result' = IF ~result.showTutorials THEN UnmountTutorialSystem
                       ELSE IF ~result.mounted THEN MountTutorialSystem
                       ELSE RenderTutorialSystem
  /\ UNCHANGED <<fn, args>>

NextTutorial ==
  \/ StartTutorial \/ NextStep \/ PreviousStep \/ CloseTutorial
  \/ AutoStartFires \/ SetLearningLevel \/ ToggleTutorials \/ RenderPage

SpecTutorial == InitTutorial /\ [][NextTutorial]_vars

(***************************************************************************)
(* Properties of the tutorial system.                                       *)
(***************************************************************************)
\* A step that brings a tutorial on screen again after closeTutorial closed
\* one at a step k > 0
ReshowsAfterClose ==
  /\ fn = "TutorialSystem"
  /\ result.closed.currentStep > 0
  /\ ~ShowsTutorial(result.tutorialState)
  /\ ShowsTutorial(result'.tutorialState)

\* Every step that brings a tutorial on screen shows its step 0 with no step
\* completed: startTutorial is the only way from the launcher to a tutorial.
ShownFromStepZero ==
  [][ ( /\ fn = "TutorialSystem"
        /\ ~ShowsTutorial(result.tutorialState)
        /\ ShowsTutorial(result'.tutorialState) ) =>
          /\ result'.tutorialState.currentStep = 0
          /\ result'.tutorialState.completedSteps = {} ]_vars

\* C24: a tutorial closed or skipped at step k > 0 can be shown again at
\* step k with its completed steps retained: bringing the closed tutorial
\* back on screen shows the step and the completed steps it was closed with.
C24_ClosedTutorialResumes ==
  [][ ( /\ ReshowsAfterClose
        /\ result'.tutorialState.activeTutorial = result.closed.tutorial ) =>
          /\ result'.tutorialState.currentStep = result.closed.currentStep
          /\ result'.tutorialState.completedSteps = result.closed.completedSteps ]_vars

\* C29: while a tutorial is active, currentStep is an index of one of its
\* steps, whatever handlers were invoked between renders.
C29_CurrentStepInRange ==
  ( /\ fn = "TutorialSystem"
    /\ result.tutorialState.activeTutorial # "none" ) =>
      StepInRange(result.tutorialState)

\* C30: an auto-start timer that fires while a tutorial is active leaves the
\* tutorial state as it is.
C30_AutoStartOnlyWhenIdle ==
  [][ ( /\ fn = "TutorialSystem"
        /\ pc' = "autoStart"
        /\ result.tutorialState.activeTutorial # "none" ) =>
          result'.tutorialState = result.tutorialState ]_vars

Init ==
  \/ InitKepler \/ InitTransfer \/ InitElements \/ InitPropagation \/ InitApsides
  \/ InitPage \/ InitTutorial

Next ==
  \/ CallSolveKepler \/ NextTransfer \/ NextElements \/ NextPropagation \/ CallGetApsides
  \/ NextPage \/ NextTutorial

Spec == Init /\ [][Next]_vars
====
